---- MODULE Spec2Model ----
(***************************************************************************)
(* A model of the exstack request router: the RegExp matcher               *)
(* (RegExpRouter), the Trie matcher, the Smart matcher that commits to one *)
(* of the two on the first match(), and the Router that registers routes   *)
(* and dispatches requests.                                                *)
(*                                                                         *)
(* Strings.  A path or a route pattern is the sequence of its segments,    *)
(* "/posts/:id" being <<Lit("posts"), Par("id")>> and "/" being << >>.     *)
(* The pattern "*" (no leading slash) is <<Star>>, "/*" is <<Wild>>.  Every *)
(* operator that reads the text of a path (its length, a regular           *)
(* expression run on it) is computed from the segments.                    *)
(*                                                                         *)
(* Objects.  A JavaScript object used as a map is a sequence of            *)
(* [k |-> key, v |-> value] entries in insertion order, the order in which *)
(* Object.keys() enumerates it.                                            *)
(***************************************************************************)
EXTENDS Integers, Sequences, FiniteSets, TLC

\* ------------------------------------------------------------------ bounds

\* The number of add() calls (route registrations) a run makes on the Router;
\* the routes of a Router to mount count among them.
MaxAdds == 3

\* ---------------------------------------------------------------- segments

Lit(s) == [k |-> "lit", n |-> s, re |-> ""]
Par(n) == [k |-> "par", n |-> n, re |-> ""]
ParRe(n, r) == [k |-> "par", n |-> n, re |-> r]
Opt(n) == [k |-> "opt", n |-> n, re |-> ""]
Wild == [k |-> "wild", n |-> "", re |-> ""]
Star == [k |-> "star", n |-> "", re |-> ""]

\* The number of characters of a segment's text: "posts", ":id", ":id{re}",
\* ":id?", "*".
SegLen(s) ==
  CASE s.k = "lit" -> Len(s.n)
    [] s.k = "par" -> 1 + Len(s.n) + (IF s.re = "" THEN 0 ELSE Len(s.re) + 2)
    [] s.k = "opt" -> 2 + Len(s.n)
    [] OTHER -> 1

RECURSIVE SumSegLen(_)
SumSegLen(p) == IF p = << >> THEN 0 ELSE 1 + SegLen(Head(p)) + SumSegLen(Tail(p))

\* path.length
PathLen(p) == IF p = <<Star>> \/ p = << >> THEN 1 ELSE SumSegLen(p)

IsDynamicSeg(s) == s.k \in {"par", "opt"}
IsWildSeg(s) == s.k \in {"wild", "star"}

\* const name = value; ...: what follows the declaration, F, with the value
\* for the name.
With(value, F(_)) == F(value)

\* -------------------------------------------------------------------- maps

Has(m, key) == \E i \in DOMAIN m : m[i].k = key
Get(m, key) == m[CHOOSE i \in DOMAIN m : m[i].k = key].v
Put(m, key, val) ==
  IF Has(m, key)
    THEN [i \in DOMAIN m |-> IF m[i].k = key THEN [k |-> key, v |-> val] ELSE m[i]]
    ELSE Append(m, [k |-> key, v |-> val])
Keys(m) == [i \in DOMAIN m |-> m[i].k]

\* `undefined` for a field that holds a map of maps: such a field always has
\* the key ALL while it is defined.
Undefined == << >>

RECURSIVE InsertByKey(_, _)
InsertByKey(x, s) ==
  IF s = << >> THEN <<x>>
  ELSE IF Head(s).key >= x.key THEN <<x>> \o s
  ELSE <<Head(s)>> \o InsertByKey(x, Tail(s))

\* Array.prototype.sort with a comparator a.key - b.key: ascending and stable.
RECURSIVE SortByKey(_)
SortByKey(s) == IF s = << >> THEN << >> ELSE InsertByKey(Head(s), SortByKey(Tail(s)))

\* ------------------------------------------------------------ path helpers

\* buildWildcardRegExp(w).test(p): "*" gives the empty expression, which every
\* text matches; "<prefix>/*" gives ^<prefix>(?:|/.*)$, matched by the prefix
\* itself and by every text that continues it with "/"; another text gives
\* ^<text>$.
WildcardTest(w, p) ==
  IF w = <<Star>> THEN TRUE
  ELSE IF w # << >> /\ w[Len(w)].k = "wild"
    THEN LET n == Len(w) - 1
         IN  /\ p # <<Star>>
             /\ Len(p) >= n
             /\ SubSeq(p, 1, n) = SubSeq(w, 1, n)
  ELSE p = w

RECURSIVE Dedupe(_)
Dedupe(s) ==
  IF s = << >> THEN << >>
  ELSE LET init == Dedupe(SubSeq(s, 1, Len(s) - 1))
           x == s[Len(s)]
       IN  IF \E i \in DOMAIN init : init[i] = x THEN init ELSE Append(init, x)

\* The walk of checkOptionalParameter over the segments: acc.base is the path
\* built so far, acc.out the paths collected.
RECURSIVE OptionalWalk(_, _)
OptionalWalk(segs, acc) ==
  IF segs = << >> THEN acc.out
  ELSE LET s == Head(segs)
       IN  IF s.k = "opt"
             THEN LET b == Append(acc.base, Par(s.n))
                  IN  OptionalWalk(Tail(segs),
                        [base |-> b, out |-> acc.out \o <<acc.base, b>>])
             ELSE OptionalWalk(Tail(segs),
                    [base |-> Append(acc.base, s), out |-> acc.out])

\* checkOptionalParameter(path): null (<< >> here) unless the path ends in "?"
\* and has a parameter; otherwise the path without, and with, each optional
\* parameter.
checkOptionalParameter(path) ==
  IF path = << >> \/ path[Len(path)].k # "opt" THEN << >>
  ELSE Dedupe(OptionalWalk(path, [base |-> << >>, out |-> << >>]))

\* /\*$/.test(path)
EndsWithStar(path) == path # << >> /\ IsWildSeg(path[Len(path)])

\* (path.match(/\/:/g) || []).length
ParamCount(path) == Cardinality({i \in DOMAIN path : IsDynamicSeg(path[i])})

\* !/\*|\/:/.test(path)
IsStaticPath(path) == \A i \in DOMAIN path : ~IsDynamicSeg(path[i]) /\ ~IsWildSeg(path[i])

\* ------------------------------------------------------------ RegExpRouter

\* A handler registered by add() is [h |-> payload, pc |-> paramCount].

Found(hs) == [found |-> TRUE, hs |-> hs]
NotFound == [found |-> FALSE, hs |-> << >>]

\* Variant: the keys by ascending length.
KeysByLengthDesc_Ascending(m) ==
  LET keyed == [i \in DOMAIN m |-> [key |-> PathLen(m[i].k), val |-> m[i].k]]
      sorted == SortByKey(keyed)
  IN  [i \in DOMAIN sorted |-> sorted[i].val]

\* The keys of a middleware map by descending length (a stable sort), as
\* sort((a, b) => b.length - a.length) leaves them.
KeysByLengthDesc(m) ==
  LET keyed == [i \in DOMAIN m |-> [key |-> 0 - PathLen(m[i].k), val |-> m[i].k]]
      sorted == SortByKey(keyed)
  IN  [i \in DOMAIN sorted |-> sorted[i].val]

\* findMiddleware(middleware, path): a copy of the handlers of the longest
\* wildcard key that matches the path, or undefined.
findMiddleware(m, path) ==
  With(KeysByLengthDesc(m), LAMBDA keys :
    With({i \in DOMAIN keys : WildcardTest(keys[i], path)}, LAMBDA hits :
      IF hits = {} THEN NotFound
      ELSE Found(Get(m, keys[CHOOSE i \in hits : \A j \in hits : i <= j]))))

\* a || b || [] over two findMiddleware results
FirstFound(a, b) == IF a.found THEN a.hs ELSE IF b.found THEN b.hs ELSE << >>

\* Variant: the bucket of a method seen for the first time starts empty.
CopyOfAll_Empty(map) == << >>

\* Object.keys(handlerMap.ALL).forEach(p => handlerMap[method][p] =
\*   [...handlerMap.ALL[p]]): the lists of the ALL bucket, copied.
CopyOfAll(map) == Get(map, "ALL")

\* The bucket of a method seen for the first time: a copy of the ALL bucket.
EnsureMethod(map, method) ==
  IF Has(map, method) THEN map ELSE Append(map, [k |-> method, v |-> CopyOfAll(map)])

\* middleware[m][path] ||= findMiddleware(middleware[m], path) ||
\*   findMiddleware(middleware.ALL, path) || [], for the methods from the i-th
\* on, in key order: a later method reads the ALL bucket as already updated.
RECURSIVE SeedMiddleware(_, _, _, _)
SeedMiddleware(mw, i, method, path) ==
  IF i > Len(mw) THEN mw
  ELSE LET m == mw[i].k
           own == mw[i].v
           seeded ==
             IF (method = "ALL" \/ m = method) /\ ~Has(own, path)
               THEN Put(mw, m, Append(own,
                      [k |-> path,
                       v |-> FirstFound(findMiddleware(own, path),
                                        findMiddleware(Get(mw, "ALL"), path))]))
               ELSE mw
       IN  SeedMiddleware(seeded, i + 1, method, path)

\* Variant: unshift in place of push.
PushMatching_Unshift(map, method, path, entry) ==
  [i \in DOMAIN map |->
     IF method = "ALL" \/ map[i].k = method
       THEN [k |-> map[i].k,
             v |-> [j \in DOMAIN map[i].v |->
                      IF WildcardTest(path, map[i].v[j].k)
                        THEN [k |-> map[i].v[j].k, v |-> <<entry>> \o map[i].v[j].v]
                        ELSE map[i].v[j]]]
       ELSE map[i]]

\* Object.keys(map).forEach(m => ... Object.keys(map[m]).forEach(p =>
\*   if (re.test(p)) map[m][p].push([handler, paramCount])))
PushMatching(map, method, path, entry) ==
  [i \in DOMAIN map |->
     IF method = "ALL" \/ map[i].k = method
       THEN [k |-> map[i].k,
             v |-> [j \in DOMAIN map[i].v |->
                      IF WildcardTest(path, map[i].v[j].k)
                        THEN [k |-> map[i].v[j].k, v |-> Append(map[i].v[j].v, entry)]
                        ELSE map[i].v[j]]]
       ELSE map[i]]

\* Variant: the route goes into the bucket of every method.
PushRoute_EveryBucket(rt, mw, method, currentPath, entry) ==
  [i \in DOMAIN rt |->
     LET m == rt[i].k
         own == rt[i].v
         cur == IF Has(own, currentPath) THEN Get(own, currentPath)
                ELSE FirstFound(
                       IF Has(mw, m) THEN findMiddleware(Get(mw, m), currentPath)
                                     ELSE NotFound,
                       findMiddleware(Get(mw, "ALL"), currentPath))
     IN  [k |-> m, v |-> Put(own, currentPath, Append(cur, entry))]]

\* Variant: a new route key starts empty, without the middleware found.
PushRoute_NoMiddleware(rt, mw, method, currentPath, entry) ==
  [i \in DOMAIN rt |->
     IF method = "ALL" \/ rt[i].k = method
       THEN [k |-> rt[i].k,
             v |-> Put(rt[i].v, currentPath,
                       Append(IF Has(rt[i].v, currentPath) THEN Get(rt[i].v, currentPath)
                                                           ELSE << >>, entry))]
       ELSE rt[i]]

\* routes[m][currentPath] ||= [...middleware found]; routes[m][currentPath].push(entry)
PushRoute(rt, mw, method, currentPath, entry) ==
  [i \in DOMAIN rt |->
     IF method = "ALL" \/ rt[i].k = method
       THEN LET m == rt[i].k
                own == rt[i].v
                cur == IF Has(own, currentPath) THEN Get(own, currentPath)
                       ELSE FirstFound(
                              IF Has(mw, m) THEN findMiddleware(Get(mw, m), currentPath)
                                            ELSE NotFound,
                              findMiddleware(Get(mw, "ALL"), currentPath))
            IN  [k |-> m, v |-> Put(own, currentPath, Append(cur, entry))]
       ELSE rt[i]]

\* Variant: every path of an optional parameter with the full paramCount.
RECURSIVE PushRoutes_FullCount(_, _, _, _, _, _, _)
PushRoutes_FullCount(rt, mw, method, paths, i, handler, paramCount) ==
  IF i > Len(paths) THEN rt
  ELSE PushRoutes_FullCount(
         PushRoute(rt, mw, method, paths[i], [h |-> handler, pc |-> paramCount]),
         mw, method, paths, i + 1, handler, paramCount)

\* for (let i = 0; i < paths.length; i++): the i-th path with the parameter
\* count paramCount - paths.length + i + 1 (i from 0).
RECURSIVE PushRoutes(_, _, _, _, _, _, _)
PushRoutes(rt, mw, method, paths, i, handler, paramCount) ==
  IF i > Len(paths) THEN rt
  ELSE PushRoutes(
         PushRoute(rt, mw, method, paths[i],
                   [h |-> handler, pc |-> paramCount - Len(paths) + i]),
         mw, method, paths, i + 1, handler, paramCount)

\* RegExpRouter.add on the pre-build maps rx = [middleware, routes]: the maps
\* after the call.  (The caller checks that the maps are defined.)
RegExpAdd(rx, method, path0, handler) ==
  LET mw1 == EnsureMethod(rx.middleware, method)
      rt1 == IF Has(rx.middleware, method) THEN rx.routes
             ELSE Put(rx.routes, method, CopyOfAll(rx.routes))
      path == IF path0 = <<Wild>> THEN <<Star>> ELSE path0
      paramCount == ParamCount(path)
  IN  IF EndsWithStar(path)
        THEN LET entry == [h |-> handler, pc |-> paramCount]
                 mw2 == SeedMiddleware(mw1, 1, method, path)
             IN  [middleware |-> PushMatching(mw2, method, path, entry),
                  routes |-> PushMatching(rt1, method, path, entry)]
        ELSE LET opt == checkOptionalParameter(path)
                 paths == IF opt = << >> THEN <<path>> ELSE opt
             IN  [middleware |-> mw1,
                  routes |-> PushRoutes(rt1, mw1, method, paths, 1, handler, paramCount)]

\* -------------------------------------------------------------------- Trie
\* The prefix tree from which the RegExp matcher compiles its one regular
\* expression.  A node is named by the keys on the way to it from the root; a
\* key is [t, s]: a literal segment ("lit", its text), a parameter ("par", its
\* constraint, "" for the default [^/]+), the tail wildcard "/*" ("tw") or
\* the wildcard "*" ("ow").  nodes maps a node to
\*   index    the number of the route that ends there (None: no route),
\*   varIndex the number of the parameter the node captures (None: none),
\*   cap, mark  the capture groups of the parameter and of the route's end
\*            marker in the compiled expression (0 until it is compiled).

None == 0 - 1

NewNode(varIndex) == [index |-> None, varIndex |-> varIndex, cap |-> 0, mark |-> 0]
EmptyTrie == [nodes |-> (<< >> :> NewNode(None)), varIndex |-> 0]

\* The tokens of a pattern: a parameter with its name, a "*" in the last place
\* as a wildcard, a "*" elsewhere as an unnamed parameter.
Tokens(path) ==
  [i \in DOMAIN path |->
     LET s == path[i]
     IN  CASE s.k = "lit" -> [t |-> "lit", s |-> s.n, name |-> ""]
           [] s.k \in {"par", "opt"} -> [t |-> "par", s |-> s.re, name |-> s.n]
           [] s.k = "star" -> [t |-> "ow", s |-> "", name |-> ""]
           [] OTHER -> IF i = Len(path) THEN [t |-> "tw", s |-> "", name |-> ""]
                       ELSE [t |-> "par", s |-> "", name |-> ""]]

ChildKeys(nodes, n) ==
  {kp[Len(kp)] : kp \in {q \in DOMAIN nodes : Len(q) = Len(n) + 1 /\ SubSeq(q, 1, Len(n)) = n}}

\* The text of a parameter's constraint, cut where the checks of Node.insert
\* look: each parenthesis, "?", ":" and "|" apart, a run of other characters
\* whole.
ConstraintText(re) ==
  CASE re = "create|update" -> <<"create", "|", "update">>
    [] re = "delete" -> <<"delete">>
    [] re = "(delete)" -> <<"(", "delete", ")">>
    [] re = "ba(r|z)" -> <<"ba", "(", "r", "|", "z", ")">>
    [] re = "[0-9" -> <<"[", "0-9">>
    [] OTHER -> << >>

\* regexpStr.replace(/^\((?!\?:)(?=[^)]+\)$)/, '(?:'): a constraint that is one
\* group from end to end, "(a|b)", becomes the non-capturing "(?:a|b)".
NonCapturing(text) ==
  IF /\ Len(text) >= 3 /\ text[1] = "(" /\ text[Len(text)] = ")"
     /\ ~(text[2] = "?" /\ text[3] = ":")
     /\ \A i \in 2..(Len(text) - 1) : text[i] # ")"
    THEN <<"(", "?", ":">> \o Tail(text)
    ELSE text

\* /\((?!\?:)/.test(regexpStr): an opening parenthesis that "?:" does not
\* follow.
HasCapturingGroup(text) ==
  \E i \in DOMAIN text :
    /\ text[i] = "("
    /\ ~(i + 2 <= Len(text) /\ text[i + 1] = "?" /\ text[i + 2] = ":")

\* A named parameter whose constraint Node.insert refuses with PATH_ERROR: one
\* that still has a capturing group.  (The node of a constrained parameter is
\* kept under the constraint as written: no two constraints of this model
\* become the same text by NonCapturing.)
RefusedConstraint(tok) ==
  /\ tok.t = "par" /\ tok.name # "" /\ tok.s # ""
  /\ HasCapturingGroup(NonCapturing(ConstraintText(tok.s)))

\* Node.insert: the tokens from the i-th on, below node n.  err is PATH_ERROR.
RECURSIVE NodeInsert(_, _, _, _, _, _, _)
NodeInsert(tr, n, tokens, i, index, checkOnly, assoc) ==
  LET done == [err |-> FALSE, trie |-> tr, assoc |-> assoc]
      fail == [err |-> TRUE, trie |-> tr, assoc |-> assoc]
  IN
  IF i > Len(tokens)
    THEN IF tr.nodes[n].index # None THEN fail
         ELSE IF checkOnly THEN done
         ELSE [done EXCEPT !.trie.nodes[n].index = index]
  ELSE
    LET tok == tokens[i]
        child == Append(n, [t |-> tok.t, s |-> tok.s])
        sibs == ChildKeys(tr.nodes, n)
        isPattern == tok.t # "lit"
        \* a pattern may not join another key that is no wildcard; a literal
        \* may not join a parameter
        clash == IF isPattern THEN \E c \in sibs : c.t \in {"lit", "par"}
                              ELSE \E c \in sibs : c.t = "par"
        named == isPattern /\ tok.name # ""
    IN  IF RefusedConstraint(tok) THEN fail
        ELSE IF child \in DOMAIN tr.nodes
          THEN NodeInsert(tr, child, tokens, i + 1, index, checkOnly,
                 IF named /\ ~checkOnly
                   THEN Append(assoc, [name |-> tok.name, var |-> tr.nodes[child].varIndex])
                   ELSE assoc)
        ELSE IF clash THEN fail
        ELSE IF checkOnly THEN done
        ELSE LET tr2 == [nodes |-> tr.nodes @@ (child :> NewNode(IF named THEN tr.varIndex ELSE None)),
                         varIndex |-> IF named THEN tr.varIndex + 1 ELSE tr.varIndex]
             IN  NodeInsert(tr2, child, tokens, i + 1, index, checkOnly,
                   IF named THEN Append(assoc, [name |-> tok.name, var |-> tr.varIndex])
                            ELSE assoc)

\* Trie.insert(path, index, pathErrorCheckOnly)
TrieInsert(tr, path, index, checkOnly) ==
  NodeInsert(tr, << >>, Tokens(path), 1, index, checkOnly, << >>)

\* The literal segments of the patterns of this model in the order in which
\* the compiled expression lists them (by character code).
LitOrder == <<"api", "entries", "entry", "foo", "posts", "users">>

\* compareKey: literals first, in character order, then the parameter, then
\* the wildcards.
KeyRank(key) ==
  CASE key.t = "lit" -> CHOOSE i \in DOMAIN LitOrder : LitOrder[i] = key.s
    [] key.t = "par" -> Len(LitOrder) + 1
    [] OTHER -> Len(LitOrder) + 2

RECURSIVE SetToSeq(_)
SetToSeq(S) ==
  IF S = {} THEN << >>
  ELSE LET x == CHOOSE x \in S : TRUE IN <<x>> \o SetToSeq(S \ {x})

SortedChildren(nodes, n) ==
  LET keys == SetToSeq(ChildKeys(nodes, n))
      sorted == SortByKey([i \in DOMAIN keys |-> [key |-> KeyRank(keys[i]), val |-> keys[i]]])
  IN  [i \in DOMAIN sorted |-> Append(n, sorted[i].val)]

\* The capture groups of the compiled expression, numbered in the order in
\* which buildRegExpStr writes them: a node's parameter group, then its end
\* marker, then its children in compareKey order.  acc = [nodes, next].
RECURSIVE NumberNode(_, _)
RECURSIVE NumberChildren(_, _, _)
NumberNode(acc, n) ==
  LET nd == acc.nodes[n]
      cap == IF nd.varIndex # None THEN acc.next ELSE 0
      n1 == IF nd.varIndex # None THEN acc.next + 1 ELSE acc.next
      mark == IF nd.index # None THEN n1 ELSE 0
      n2 == IF nd.index # None THEN n1 + 1 ELSE n1
      acc2 == [nodes |-> [acc.nodes EXCEPT ![n] = [nd EXCEPT !.cap = cap, !.mark = mark]],
               next |-> n2]
  IN  NumberChildren(acc2, SortedChildren(acc.nodes, n), 1)
NumberChildren(acc, kids, i) ==
  IF i > Len(kids) THEN acc ELSE NumberChildren(NumberNode(acc, kids[i]), kids, i + 1)

RECURSIVE Count(_, _)
Count(text, c) ==
  IF text = << >> THEN 0
  ELSE (IF Head(text) = c THEN 1 ELSE 0) + Count(Tail(text), c)

\* Is the text a regular expression?  One with a bracket or a parenthesis
\* left open is none.
IsRegExp(text) ==
  /\ Count(text, "[") = Count(text, "]")
  /\ Count(text, "(") = Count(text, ")")

\* new RegExp(`^${regexp}`) in Trie.buildRegExp throws a SyntaxError when the
\* constraint of a parameter of the tree is no regular expression.
RegExpSyntaxError(tr) ==
  \E n \in DOMAIN tr.nodes :
    /\ n # << >> /\ n[Len(n)].t = "par"
    /\ ~IsRegExp(ConstraintText(n[Len(n)].s))

\* Trie.buildRegExp: the tree with its capture groups numbered.  The two
\* replacement maps are read off the nodes: indexReplacementMap[mark] = index,
\* paramReplacementMap[varIndex] = cap.
TrieBuildRegExp(tr) == NumberNode([nodes |-> tr.nodes, next |-> 1], << >>).nodes

ParamReplacement(nodes, var) ==
  nodes[CHOOSE n \in DOMAIN nodes : nodes[n].varIndex = var].cap

\* The segments a constraint matches, from end to end.
ConstraintLanguage(re) ==
  CASE re = "create|update" -> {"create", "update"}
    [] re = "delete" -> {"delete"}
    [] re = "(delete)" -> {"delete"}
    [] re = "ba(r|z)" -> {"bar", "baz"}
    [] OTHER -> {}

\* Whether the text of a request segment matches a parameter's constraint
\* ("": the default [^/]+, which every segment matches).
ConstraintAccepts(re, text) == re = "" \/ text \in ConstraintLanguage(re)

NoMatch == [ok |-> FALSE, mark |-> 0, stash |-> << >>]

\* path.match(regexp): the first alternative of the compiled expression that
\* matches the rest of the path from node n, with the groups captured on the
\* way.
RECURSIVE RegExpExec(_, _, _, _)
RegExpExec(nodes, n, rest, stash) ==
  LET nd == nodes[n]
      lit == IF rest = << >> THEN n ELSE Append(n, [t |-> "lit", s |-> Head(rest)])
      viaLit == IF rest # << >> /\ lit \in DOMAIN nodes
                  THEN RegExpExec(nodes, lit, Tail(rest), stash) ELSE NoMatch
      pars == IF rest = << >> THEN {}
              ELSE {c \in ChildKeys(nodes, n) : c.t = "par" /\ ConstraintAccepts(c.s, Head(rest))}
      par == Append(n, CHOOSE c \in pars : TRUE)
      viaPar == IF pars # {}
                  THEN RegExpExec(nodes, par, Tail(rest),
                         IF nodes[par].cap # 0 THEN (nodes[par].cap :> Head(rest)) @@ stash
                                               ELSE stash)
                  ELSE NoMatch
      wilds == {c \in ChildKeys(nodes, n) : c.t \in {"tw", "ow"}}
      wild == Append(n, CHOOSE c \in wilds : TRUE)
  IN  IF rest = << >> /\ nd.index # None
        THEN [ok |-> TRUE, mark |-> nd.mark, stash |-> (nd.mark :> "") @@ stash]
      ELSE IF viaLit.ok THEN viaLit
      ELSE IF viaPar.ok THEN viaPar
      ELSE IF wilds # {} /\ nodes[wild].index # None
        THEN [ok |-> TRUE, mark |-> nodes[wild].mark, stash |-> (nodes[wild].mark :> "") @@ stash]
      ELSE NoMatch

\* ------------------------------------------------- RegExpRouter: the build

\* Variant: the dynamic routes by descending length.
RoutesWithStaticPathFlag_Descending(routes) ==
  LET IsDyn(r) == ~IsStaticPath(r.k)
      IsStat(r) == IsStaticPath(r.k)
      dyn == SelectSeq(routes, IsDyn)
      sorted == SortByKey([i \in DOMAIN dyn |-> [key |-> 0 - PathLen(dyn[i].k), val |-> dyn[i]]])
  IN  [i \in DOMAIN sorted |-> [static |-> FALSE, path |-> sorted[i].val.k, handlers |-> sorted[i].val.v]]
      \o LET st == SelectSeq(routes, IsStat)
         IN  [i \in DOMAIN st |-> [static |-> TRUE, path |-> st[i].k, handlers |-> st[i].v]]

\* Variant: the static routes are left out of the loop, unchecked.
RoutesWithStaticPathFlag_DynamicOnly(routes) ==
  LET IsDyn(r) == ~IsStaticPath(r.k)
      dyn == SelectSeq(routes, IsDyn)
      sorted == SortByKey([i \in DOMAIN dyn |-> [key |-> PathLen(dyn[i].k), val |-> dyn[i]]])
  IN  [i \in DOMAIN sorted |-> [static |-> FALSE, path |-> sorted[i].val.k, handlers |-> sorted[i].val.v]]

\* routes.map(...).sort(([isStaticA, pathA], [isStaticB, pathB]) =>
\*   isStaticA ? 1 : isStaticB ? -1 : pathA.length - pathB.length):
\* the dynamic routes by ascending length of the pattern (a stable sort),
\* then the static ones.
RoutesWithStaticPathFlag(routes) ==
  LET IsDyn(r) == ~IsStaticPath(r.k)
      IsStat(r) == IsStaticPath(r.k)
      dyn == SelectSeq(routes, IsDyn)
      sorted == SortByKey([i \in DOMAIN dyn |-> [key |-> PathLen(dyn[i].k), val |-> dyn[i]]])
  IN  [i \in DOMAIN sorted |-> [static |-> FALSE, path |-> sorted[i].val.k, handlers |-> sorted[i].val.v]]
      \o LET st == SelectSeq(routes, IsStat)
         IN  [i \in DOMAIN st |-> [static |-> TRUE, path |-> st[i].k, handlers |-> st[i].v]]

\* Variant: the loop stops one parameter short.
ParamIndexMap_OneShort(assoc, paramCount) ==
  LET used == {i \in DOMAIN assoc : i < paramCount}
      names == {assoc[i].name : i \in used}
  IN  [nm \in names |->
         assoc[CHOOSE i \in used : assoc[i].name = nm /\
                 \A j \in used : assoc[j].name = nm => i <= j].var]

\* The parameter index map of a handler with paramCount parameters: the first
\* paramCount names of the route's paramAssoc, each with its variable.
ParamIndexMap(assoc, paramCount) ==
  LET used == {i \in DOMAIN assoc : i <= paramCount}
      names == {assoc[i].name : i \in used}
  IN  [nm \in names |->
         assoc[CHOOSE i \in used : assoc[i].name = nm /\
                 \A j \in used : assoc[j].name = nm => i <= j].var]

\* Variant: the error of the trie is rethrown as it is.
RethrowPathError_Raw(e) == e

\* catch (e) { throw e === PATH_ERROR ? new UnsupportedPathError(path) : e }
RethrowPathError(e) == IF e = "PATH_ERROR" THEN "UnsupportedPathError" ELSE e

\* The loop over the sorted routes: acc = [err, path, trie, j, handlerData,
\* staticMap]; err is the error thrown, with the path of the route whose
\* insertion failed.
RECURSIVE InsertRoutes(_, _, _)
InsertRoutes(acc, sorted, i) ==
  IF i > Len(sorted) \/ acc.err # "none" THEN acc
  ELSE LET r == sorted[i]
           j == IF r.static THEN acc.j ELSE acc.j + 1
           staticMap == IF r.static
                          THEN Put(acc.staticMap, r.path,
                                 [x \in DOMAIN r.handlers |->
                                    [h |-> r.handlers[x].h, params |-> << >>]])
                          ELSE acc.staticMap
       IN  With(TrieInsert(acc.trie, r.path, j, r.static), LAMBDA ins :
             IF ins.err
               THEN [acc EXCEPT !.err = RethrowPathError("PATH_ERROR"), !.path = r.path]
             ELSE IF r.static
               THEN InsertRoutes([acc EXCEPT !.staticMap = staticMap], sorted, i + 1)
             ELSE InsertRoutes(
                    [acc EXCEPT !.trie = ins.trie, !.j = j,
                       !.handlerData = Append(acc.handlerData,
                          [x \in DOMAIN r.handlers |->
                             [h |-> r.handlers[x].h,
                              params |-> ParamIndexMap(ins.assoc, r.handlers[x].pc)]])],
                    sorted, i + 1))

\* A Matcher: the compiled tree, the handler lists of its routes (handlerData,
\* reached from a match through the end marker's route number) and the static
\* map.  isNull: buildMatcher returned null.
nullMatcher == [isNull |-> FALSE, nodes |-> EmptyTrie.nodes, handlerData |-> << >>, staticMap |-> << >>]
NullValue == [isNull |-> TRUE, nodes |-> EmptyTrie.nodes, handlerData |-> << >>, staticMap |-> << >>]

\* buildMatcherFromPreprocessedRoutes(routes): [err, path, matcher]; err is
\* "none" or the error thrown, UnsupportedPathError(path).
buildMatcherFromPreprocessedRoutes(routes) ==
  IF routes = << >> THEN [err |-> "none", path |-> << >>, matcher |-> nullMatcher]
  ELSE
    With(InsertRoutes(
           [err |-> "none", path |-> << >>, trie |-> EmptyTrie, j |-> None,
            handlerData |-> << >>, staticMap |-> << >>],
           RoutesWithStaticPathFlag(routes), 1), LAMBDA acc :
      IF acc.err # "none" THEN [err |-> acc.err, path |-> acc.path, matcher |-> nullMatcher]
      ELSE IF RegExpSyntaxError(acc.trie)
        THEN [err |-> "SyntaxError", path |-> << >>, matcher |-> nullMatcher]
      ELSE With(TrieBuildRegExp(acc.trie), LAMBDA nodes :
        [err |-> "none", path |-> << >>,
         matcher |->
           [isNull |-> FALSE,
            nodes |-> nodes,
            handlerData |->
              [x \in DOMAIN acc.handlerData |->
                 [y \in DOMAIN acc.handlerData[x] |->
                    [h |-> acc.handlerData[x][y].h,
                     params |-> [nm \in DOMAIN acc.handlerData[x][y].params |->
                                   ParamReplacement(nodes, acc.handlerData[x][y].params[nm])]]]],
            staticMap |-> acc.staticMap]]))

\* RegExpRouter.buildMatcher(method): the method's own middleware and routes,
\* or those of ALL in place of an empty map; null without any own route.
OwnRoutes(r, method) == IF Has(r, method) THEN Get(r, method) ELSE << >>

hasOwnRoute(rx, method) ==
  method = "ALL" \/ OwnRoutes(rx.middleware, method) # << >> \/ OwnRoutes(rx.routes, method) # << >>

\* The routes buildMatcher collects for a method: of each map its own entries,
\* or those of ALL when it has none.
CollectRoutes(rx, method) ==
  LET Part(r) == IF OwnRoutes(r, method) # << >> THEN OwnRoutes(r, method)
                 ELSE IF method # "ALL" THEN Get(r, "ALL") ELSE << >>
  IN  Part(rx.middleware) \o Part(rx.routes)

buildMatcher(rx, method) ==
  IF ~hasOwnRoute(rx, method) THEN [err |-> "none", path |-> << >>, matcher |-> NullValue]
  ELSE buildMatcherFromPreprocessedRoutes(CollectRoutes(rx, method))

\* RegExpRouter.buildAllMatchers: a matcher for every method of the two maps;
\* the first failing build ends it with its error.
RECURSIVE BuildMethods(_, _, _, _)
BuildMethods(rx, methods, i, acc) ==
  IF i > Len(methods) THEN acc
  ELSE IF Has(acc.matchers, methods[i]) /\ ~Get(acc.matchers, methods[i]).isNull
    THEN BuildMethods(rx, methods, i + 1, acc)
  ELSE With(buildMatcher(rx, methods[i]), LAMBDA b :
         IF b.err # "none" THEN [err |-> b.err, path |-> b.path, matchers |-> << >>]
         ELSE BuildMethods(rx, methods, i + 1,
                [acc EXCEPT !.matchers = Put(acc.matchers, methods[i], b.matcher)]))

\* Variant: the matcher of ALL is built, and no other.
buildAllMatchers_OfAllOnly(rx) ==
  BuildMethods(rx, <<"ALL">>, 1, [err |-> "none", path |-> << >>, matchers |-> << >>])

buildAllMatchers(rx) ==
  BuildMethods(rx, Keys(rx.routes) \o Keys(rx.middleware), 1,
               [err |-> "none", path |-> << >>, matchers |-> << >>])

\* The empty result [[], emptyParam].
EmptyResult == [handlers |-> << >>, stash |-> << >>, indexed |-> TRUE]

\* match(method, path) on the built matchers: the matcher of the method, or
\* that of ALL; the static map first (key: the text of the request path), then
\* the compiled expression.
MatcherOf(matchers, method) ==
  IF Has(matchers, method) /\ ~Get(matchers, method).isNull
    THEN Get(matchers, method) ELSE Get(matchers, "ALL")

MatchBuilt(matchers, method, path) ==
  With(MatcherOf(matchers, method), LAMBDA matcher :
    With([i \in DOMAIN path |-> Lit(path[i])], LAMBDA key :
      IF Has(matcher.staticMap, key)
        THEN [handlers |-> Get(matcher.staticMap, key), stash |-> << >>, indexed |-> TRUE]
      ELSE With(RegExpExec(matcher.nodes, << >>, path, << >>), LAMBDA m :
        IF ~m.ok THEN EmptyResult
        ELSE [handlers |->
                matcher.handlerData[
                  matcher.nodes[CHOOSE n \in DOMAIN matcher.nodes :
                                  matcher.nodes[n].mark = m.mark].index + 1],
              stash |-> m.stash, indexed |-> TRUE])))

\* -------------------------------------------------------------- TrieRouter
\* The Trie matcher never refuses a route set.  Its state is the routes added,
\* in order; its match returns, in that order, the handlers of the routes of
\* the method (or of ALL) whose pattern matches the path, each with its
\* parameters resolved to the text of the path.

RECURSIVE TrieBind(_, _, _)
TrieBind(pattern, path, params) ==
  IF pattern = << >> THEN [ok |-> path = << >>, params |-> params]
  ELSE LET s == Head(pattern)
       IN  IF s.k = "star" \/ (s.k = "wild" /\ Len(pattern) = 1)
             THEN [ok |-> TRUE, params |-> params]
           ELSE IF path = << >> THEN [ok |-> FALSE, params |-> params]
           ELSE IF s.k = "lit"
             THEN IF s.n = Head(path) THEN TrieBind(Tail(pattern), Tail(path), params)
                  ELSE [ok |-> FALSE, params |-> params]
           ELSE IF s.k = "wild"
             THEN TrieBind(Tail(pattern), Tail(path), params)
           ELSE IF ConstraintAccepts(s.re, Head(path))
             THEN TrieBind(Tail(pattern), Tail(path), (s.n :> Head(path)) @@ params)
           ELSE [ok |-> FALSE, params |-> params]

\* TrieRouter.add: the route, once for each path an optional parameter
\* expands to.
TrieAdd(troutes, method, path, handler) ==
  LET opt == checkOptionalParameter(path)
      paths == IF opt = << >> THEN <<path>> ELSE opt
  IN  troutes \o [i \in DOMAIN paths |-> [method |-> method, path |-> paths[i], h |-> handler]]

RECURSIVE TrieCollect(_, _, _, _)
TrieCollect(troutes, i, method, path) ==
  IF i > Len(troutes) THEN << >>
  ELSE LET r == troutes[i]
           b == TrieBind(r.path, path, << >>)
       IN  (IF (r.method = method \/ r.method = "ALL") /\ b.ok
              THEN <<[h |-> r.h, params |-> b.params]>> ELSE << >>)
           \o TrieCollect(troutes, i + 1, method, path)

TrieMatch(troutes, method, path) ==
  [handlers |-> TrieCollect(troutes, 1, method, path), stash |-> << >>, indexed |-> FALSE]

\* The parameters of the handlers of a result by name: those of an indexed
\* result are read from the stash at the index the handler's map gives, those
\* of a resolved result are there already.
ResolveParams(result) ==
  [i \in DOMAIN result.handlers |->
     [h |-> result.handlers[i].h,
      params |-> IF result.indexed
                   THEN [nm \in DOMAIN result.handlers[i].params |->
                           result.stash[result.handlers[i].params[nm]]]
                   ELSE result.handlers[i].params]]

\* ------------------------------------------------------------------- state

VARIABLES
  family,     \* the route patterns and requests this run draws from
  rx,         \* RegExpRouter: [middleware, routes], both Undefined once released
  matchers,   \* RegExpRouter: the built matchers, Undefined before the build
  trie,       \* TrieRouter: the routes added
  strategy,   \* SmartRouter: "UNDECIDED", "RegExp" or "Trie"
  routes,     \* Router.routes
  nAdds,      \* the number of handlers registered so far
  added,      \* history: the add() calls that succeeded, [method, path, h]
  last,       \* the last call and how it ended
  disp,       \* the last dispatch: the handlers run and the call of next()
  chain,      \* the last dispatch: the handlers matched and what each one run did
  kept,       \* history: an earlier match(), how it ended and the matchers it left
  subRouter,  \* a second Router, to mount: [rx, trie, routes]
  mounts,     \* history: the route() calls that mounted it, [prefix, first, router]
  req,        \* the request object dispatched last: [has, param, matched], the
              \* result its accessor holds and, as history, the results of the
              \* dispatches of it that matched
  wrapped     \* a call of handler(callback): the callback, res, and what was called

vars == <<family, rx, matchers, trie, strategy, routes, nAdds, added, last, disp, chain,
          kept, subRouter, mounts, req, wrapped>>

\* ------------------------------------------------------------------ inputs

P_user_entries == <<Par("user"), Lit("entries")>>
P_entry_name == <<Lit("entry"), Par("name")>>
P_entry == <<Lit("entry")>>
P_type_id == <<Par("type"), Par("id")>>
P_class_id == <<Par("class"), Par("id")>>
P_id_action == <<Par("id"), Par("action")>>
P_posts_id == <<Lit("posts"), Par("id")>>
P_star == <<Star>>
P_api_wild == <<Lit("api"), Wild>>
P_api_users_id == <<Lit("api"), Lit("users"), Par("id")>>
P_api_users == <<Lit("api"), Lit("users")>>
P_users_optid == <<Lit("users"), Opt("id")>>
P_users == <<Lit("users")>>
P_id_action_create_update == <<Par("id"), ParRe("action", "create|update")>>
P_id_action_delete == <<Par("id"), ParRe("action", "delete")>>
P_id_action_group == <<Par("id"), ParRe("action", "(delete)")>>
P_foo_capture == <<Lit("foo"), ParRe("capture", "ba(r|z)")>>
P_posts_id_open == <<Lit("posts"), ParRe("id", "[0-9")>>
P_posts_entry == <<Lit("posts"), Lit("entry")>>
P_posts_name == <<Lit("posts"), Par("name")>>
P_api == <<Lit("api")>>
P_id == <<Par("id")>>

\* The families of route sets a run draws its registrations from: the
\* overlapping dynamic patterns, the same slots under different labels, a
\* wildcard middleware over routes, wildcards within wildcards, the optional
\* parameter, a static route in the slot of a parameter, parameters with a
\* constraint; "app" is the route set of the Router, "pair" that of the
\* Router whose history is kept, "fault" a route set with a constraint that is
\* no regular expression, "verbs" one route under every registration method,
\* "mount" the routes of a Router on which another is mounted, "use" routes
\* with middleware at a path, "request" routes with parameters for a request
\* that is dispatched more than once.
RegExpFamilies ==
  {"overlap", "labels", "middleware", "nested", "optional", "slot", "constraint"}
RouterFamilies == {"app"}
KeptFamilies == {"pair"}
FaultFamilies == {"fault"}
VerbFamilies == {"verbs"}
MountFamilies == {"mount"}
UseFamilies == {"use"}
RequestFamilies == {"request"}
AgreeFamilies == {"middleware", "nested", "optional", "constraint"}

Patterns(f) ==
  CASE f = "overlap" -> {P_user_entries, P_entry_name, P_entry}
    [] f = "labels" -> {P_type_id, P_class_id, P_id_action, P_posts_id}
    [] f = "middleware" -> {P_api_wild, P_api_users_id, P_api_users}
    [] f = "nested" -> {P_star, P_api_wild, P_api_users_id}
    [] f = "optional" -> {P_users_optid, P_posts_id, P_star}
    [] f = "slot" -> {P_posts_entry, P_posts_id, P_posts_name}
    [] f = "constraint" -> {P_id_action_create_update, P_id_action_delete,
                            P_id_action_group, P_foo_capture}
    [] f = "pair" -> {P_user_entries, P_entry_name, P_posts_id}
    [] f = "fault" -> {P_posts_id_open, P_entry, P_entry_name}
    [] f = "verbs" -> {P_entry}
    [] f = "mount" -> {P_api_users}
    [] f = "use" -> {P_entry, P_posts_id}
    [] f = "request" -> {P_posts_id, P_entry_name}
    [] OTHER -> {P_user_entries, P_entry_name, P_posts_id, P_entry}

Methods(f) ==
  CASE f = "overlap" -> {"GET", "POST"}
    [] f = "labels" -> {"GET"}
    [] f = "slot" -> {"GET", "POST"}
    [] f = "constraint" -> {"GET", "POST"}
    [] OTHER -> {"ALL", "GET"}

\* The requests: method and path.
RequestMethods == {"GET", "POST"}
Paths(f) ==
  CASE f = "overlap" -> {<<"entry", "entries">>, <<"entry">>, << >>}
    [] f = "labels" -> {<<"entry", "123">>, <<"posts", "1">>, << >>}
    [] f = "middleware" -> {<<"api", "users", "5">>, <<"api", "users">>, <<"posts">>}
    [] f = "nested" -> {<<"api", "users", "5">>, <<"api">>, <<"posts">>}
    [] f = "optional" -> {<<"users">>, <<"users", "5">>, <<"posts", "42">>}
    [] f = "slot" -> {<< >>, <<"posts", "entry">>, <<"posts", "1">>}
    [] f = "constraint" -> {<<"1", "delete">>, <<"1", "create">>, <<"foo", "bar">>}
    [] f = "pair" -> {<<"entry", "entries">>, <<"posts", "42">>}
    [] f = "fault" -> {<<"posts", "1">>, <<"entry">>}
    [] f = "verbs" -> {<<"entry">>}
    [] f = "mount" -> {<<"api", "users">>, <<"api">>}
    [] f = "use" -> {<<"entry">>, <<"posts", "42">>, <<"users">>}
    [] f = "request" -> {<<"posts", "42">>, <<"entry", "42">>, <<"users">>}
    [] OTHER -> {<<"entry", "entries">>, <<"posts", "42">>, <<"entry">>}

\* ------------------------------------------------------------ construction

EmptyMaps == [middleware |-> <<[k |-> "ALL", v |-> << >>]>>,
              routes |-> <<[k |-> "ALL", v |-> << >>]>>]

\* Variant: only the routes are released.
Released_RoutesOnly == [middleware |-> EmptyMaps.middleware, routes |-> Undefined]

Released == [middleware |-> Undefined, routes |-> Undefined]

NoCall == [op |-> "none", err |-> "none", method |-> "", path |-> << >>, result |-> EmptyResult]
NoDispatch == [ran |-> << >>, next |-> "none"]
NoChain == [list |-> << >>, did |-> << >>]

\* new Router(), the one to mount: its matchers' buffers and its routes.
NewRouter == [rx |-> EmptyMaps, trie |-> << >>, routes |-> << >>]

\* A run that follows no request object.
NoRequest == [param |-> "off"]

\* A request object no Router has dispatched: no req._param.
NewRequest ==
  [has |-> FALSE,
   param |-> [handlers |-> << >>, stash |-> << >>, indexed |-> TRUE],
   matched |-> << >>]

\* A run without a call of handler(callback).
NotWrapped == [pc |-> "off"]

\* The history of an earlier match(): the call (as in last), the state of the
\* matchers after it, and whether a match() of another request was made since.
NoKept == [call |-> NoCall, between |-> FALSE, state |-> << >>]

\* A run that keeps no history.
KeepsNone == [call |-> NoCall, between |-> FALSE, state |-> <<"none">>]

\* The history after a match(): the call is the one kept from now on (keep),
\* or the one kept before stays, with a note of a call for another request.
Remember(kept0, keep, call, state) ==
  IF kept0 = KeepsNone THEN KeepsNone
  ELSE IF keep THEN [call |-> call, between |-> FALSE, state |-> state]
  ELSE IF kept0.call.op = "match" /\
          (call.method # kept0.call.method \/ call.path # kept0.call.path)
    THEN [kept0 EXCEPT !.between = TRUE]
  ELSE kept0

Fresh ==
  /\ rx = EmptyMaps
  /\ matchers = Undefined
  /\ trie = << >>
  /\ strategy = "UNDECIDED"
  /\ routes = << >>
  /\ nAdds = 0
  /\ added = << >>
  /\ last = NoCall
  /\ disp = NoDispatch
  /\ chain = NoChain
  /\ subRouter = NewRouter
  /\ mounts = << >>
  /\ req = NoRequest

\* new Router()
Init == family \in RouterFamilies /\ Fresh /\ wrapped = NotWrapped /\ kept = KeepsNone

\* new RegExpRouter()
InitRegExp == family \in RegExpFamilies /\ Fresh /\ wrapped = NotWrapped /\ kept = KeepsNone

\* ------------------------------------------------- RegExpRouter on its own

\* router.add(method, path, handler) on a RegExpRouter; the handler is the
\* number of the registration.
RegExpRouterAdd(method, path) ==
  /\ nAdds < MaxAdds
  /\ IF rx.middleware = Undefined \/ rx.routes = Undefined
       THEN /\ last' = [op |-> "add", err |-> "MatcherAlreadyBuilt", method |-> method,
                        path |-> path, result |-> EmptyResult]
            /\ UNCHANGED <<rx, nAdds, added>>
       ELSE /\ rx' = RegExpAdd(rx, method, path, nAdds + 1)
            /\ nAdds' = nAdds + 1
            /\ added' = Append(added, [method |-> method, path |-> path, h |-> nAdds + 1])
            /\ last' = [op |-> "add", err |-> "none", method |-> method,
                        path |-> path, result |-> EmptyResult]
  /\ UNCHANGED <<family, matchers, trie, strategy, routes, disp, chain, kept, subRouter, mounts, req, wrapped>>

\* Variant: the maps are released whether the build raised or not.
MapsAfterBuild_Released(rx0, b) == Released

\* The maps after buildAllMatchers: released after the loop over the methods,
\* which a build that raises does not leave by its end.
MapsAfterBuild(rx0, b) == IF b.err # "none" THEN rx0 ELSE Released

\* The outcome of RegExpRouter.match(method, path) from the state (rx,
\* matchers): the first call builds every matcher, replaces match() by the
\* lookup in them and releases the maps; a failed build leaves all as it was.
RegExpMatchOutcome(rx0, matchers0, method, path) ==
  IF matchers0 # Undefined
    THEN [err |-> "none", rx |-> rx0, matchers |-> matchers0,
          result |-> MatchBuilt(matchers0, method, path)]
  ELSE With(buildAllMatchers(rx0), LAMBDA b :
         IF b.err # "none"
           THEN [err |-> b.err, rx |-> MapsAfterBuild(rx0, b), matchers |-> matchers0,
                 result |-> EmptyResult]
           ELSE [err |-> "none", rx |-> MapsAfterBuild(rx0, b), matchers |-> b.matchers,
                 result |-> MatchBuilt(b.matchers, method, path)])

RegExpRouterMatch(method, path) ==
  \E o \in {RegExpMatchOutcome(rx, matchers, method, path)} :
    /\ rx' = o.rx
    /\ matchers' = o.matchers
    /\ last' = [op |-> "match", err |-> o.err, method |-> method, path |-> path,
                result |-> o.result]
    /\ \E keep \in IF kept = KeepsNone THEN {FALSE} ELSE BOOLEAN :
         kept' = Remember(kept, keep, last', <<strategy, o.rx, o.matchers, trie>>)
    /\ UNCHANGED <<family, trie, strategy, routes, nAdds, added, disp, chain, subRouter, mounts, req, wrapped>>

NextRegExp ==
  \/ \E m \in Methods(family), p \in Patterns(family) : RegExpRouterAdd(m, p)
  \/ \E m \in RequestMethods, p \in Paths(family) : RegExpRouterMatch(m, p)

SpecRegExp == InitRegExp /\ [][NextRegExp]_vars

\* new RegExpRouter() for the route sets whose build can raise, with the
\* history of an earlier match() kept.
AmbiguousFamilies == {"overlap", "labels"}
InitRegExpKept ==
  family \in AmbiguousFamilies /\ Fresh /\ wrapped = NotWrapped /\ kept = NoKept
SpecRegExpKept == InitRegExpKept /\ [][NextRegExp]_vars

\* ------------------------------------------------------------- SmartRouter
\* The Smart matcher wraps the RegExp matcher and the Trie matcher.  add()
\* forwards to both while the strategy is UNDECIDED; the first match() tries
\* the RegExp matcher and commits to it, or to the Trie matcher when the build
\* raises UnsupportedPathError; the buffered state of the matcher not chosen
\* is released.

\* SmartRouter.add: [err, rx, trie]
SmartAddOutcome(strategy0, rx0, trie0, method, path, handler) ==
  IF strategy0 # "UNDECIDED"
    THEN [err |-> "MatcherAlreadyBuilt", rx |-> rx0, trie |-> trie0]
    ELSE [err |-> "none",
          rx |-> RegExpAdd(rx0, method, path, handler),
          trie |-> TrieAdd(trie0, method, path, handler)]

\* Variant: the Trie matcher ahead of the RegExp matcher.
Routers_TrieFirst == <<"Trie", "RegExp">>

\* new SmartRouter({routers: [new RegExpRouter(), new TrieRouter()]}): the
\* matchers in the order in which the first match() tries them.
Routers == <<"RegExp", "Trie">>

\* match() of one of the wrapped matchers: [err, rx, matchers, result]
InnerMatchOutcome(name, rx0, matchers0, trie0, method, path) ==
  IF name = "RegExp" THEN RegExpMatchOutcome(rx0, matchers0, method, path)
  ELSE [err |-> "none", rx |-> rx0, matchers |-> matchers0,
        result |-> TrieMatch(trie0, method, path)]

\* Variant: the buffered state of both matchers is released.
Commit_ReleaseBoth(name, o, trie0) ==
  [err |-> o.err, strategy |-> name, rx |-> IF name = "RegExp" THEN o.rx ELSE Released,
   matchers |-> IF name = "RegExp" THEN o.matchers ELSE Undefined,
   trie |-> << >>, result |-> o.result]

\* The state of the wrapped matchers once the strategy is name: the buffered
\* state of the other is released.
Commit(name, o, trie0) ==
  IF name = "RegExp"
    THEN [err |-> o.err, strategy |-> "RegExp", rx |-> o.rx, matchers |-> o.matchers,
          trie |-> << >>, result |-> o.result]
    ELSE [err |-> o.err, strategy |-> "Trie", rx |-> Released, matchers |-> Undefined,
          trie |-> trie0, result |-> o.result]

\* Variant: every error makes the first match() go on to the next matcher.
RECURSIVE TryRouters_CatchAll(_, _, _, _, _, _)
TryRouters_CatchAll(i, rx0, matchers0, trie0, method, path) ==
  With(InnerMatchOutcome(Routers[i], rx0, matchers0, trie0, method, path), LAMBDA o :
    IF o.err = "none" THEN Commit(Routers[i], o, trie0)
    ELSE IF i < Len(Routers)
      THEN TryRouters_CatchAll(i + 1, rx0, matchers0, trie0, method, path)
    ELSE [err |-> o.err, strategy |-> "UNDECIDED", rx |-> o.rx,
          matchers |-> o.matchers, trie |-> trie0, result |-> o.result])

\* SmartRouter.match: [err, strategy, rx, matchers, trie, result].  Only
\* UnsupportedPathError makes the first match() go on to the next matcher;
\* another error is the caller's, and nothing is committed.
RECURSIVE TryRouters(_, _, _, _, _, _)
TryRouters(i, rx0, matchers0, trie0, method, path) ==
  With(InnerMatchOutcome(Routers[i], rx0, matchers0, trie0, method, path), LAMBDA o :
    IF o.err = "none" THEN Commit(Routers[i], o, trie0)
    ELSE IF o.err = "UnsupportedPathError" /\ i < Len(Routers)
      THEN TryRouters(i + 1, rx0, matchers0, trie0, method, path)
    ELSE [err |-> o.err, strategy |-> "UNDECIDED", rx |-> o.rx,
          matchers |-> o.matchers, trie |-> trie0, result |-> o.result])

SmartMatchOutcome(strategy0, rx0, matchers0, trie0, method, path) ==
  IF strategy0 = "UNDECIDED" THEN TryRouters(1, rx0, matchers0, trie0, method, path)
  ELSE With(InnerMatchOutcome(strategy0, rx0, matchers0, trie0, method, path), LAMBDA o :
         [err |-> o.err, strategy |-> strategy0, rx |-> o.rx,
          matchers |-> o.matchers, trie |-> trie0, result |-> o.result])

\* ------------------------------------------------------------------ Router

\* method.toUpperCase()
ToUpperCase(m) ==
  CASE m = "get" -> "GET" [] m = "post" -> "POST" [] m = "put" -> "PUT"
    [] m = "delete" -> "DELETE" [] m = "options" -> "OPTIONS" [] m = "patch" -> "PATCH"
    [] m = "head" -> "HEAD" [] m = "all" -> "ALL" [] OTHER -> m

\* mergePath(base, sub): the sub-path below the base; "*" below "/" is "/*".
mergePath(base, sub) == base \o (IF sub = <<Star>> THEN <<Wild>> ELSE sub)

\* Router.#basePath
basePath == << >>

\* Variant: the route is pushed before the matcher is asked.
RoutesAfterAdd_PushFirst(routes0, route, err) == Append(routes0, route)

\* this.router.add(method, path, [handler, route]); this.routes.push(route):
\* Router.routes after the call, err being what the matcher's add() threw.
RoutesAfterAdd(routes0, route, err) ==
  IF err = "none" THEN Append(routes0, route) ELSE routes0

\* Router.#addRoute(method, path, handler): the route goes to the matcher and
\* then onto Router.routes; an error of the matcher's add() leaves both as
\* they were.
AddRoute(method0, path) ==
  LET method == ToUpperCase(method0)
      route == [basePath |-> basePath, path |-> mergePath(basePath, path),
                method |-> method, handler |-> nAdds + 1]
  IN  \E a \in {SmartAddOutcome(strategy, rx, trie, method, path, nAdds + 1)} :
        /\ rx' = a.rx
        /\ trie' = a.trie
        /\ routes' = RoutesAfterAdd(routes, route, a.err)
        /\ nAdds' = IF a.err = "none" THEN nAdds + 1 ELSE nAdds
        /\ added' = IF a.err = "none"
                      THEN Append(added, [method |-> method, path |-> path, h |-> nAdds + 1])
                      ELSE added
        /\ last' = [op |-> "add", err |-> a.err, method |-> method, path |-> path,
                    result |-> EmptyResult]
        /\ UNCHANGED <<family, matchers, strategy, disp, chain, kept, subRouter, mounts, req, wrapped>>

\* export const METHODS = ['get', 'post', 'put', 'delete', 'options', 'patch']
METHODS == {"get", "post", "put", "delete", "options", "patch"}
METHOD_NAME_ALL_LOWERCASE == "all"

\* get!, post!, put!, delete!, patch!, head!, options!, all!: the registration
\* methods the class declares.
DeclaredVerbs == {"get", "post", "put", "delete", "patch", "head", "options", "all"}

\* const allMethods = [...METHODS, METHOD_NAME_ALL_LOWERCASE]: the methods the
\* constructor assigns.
allMethods == METHODS \cup {METHOD_NAME_ALL_LOWERCASE}

\* router.get(path, handler), router.post(path, handler), ..., router.all(path, handler):
\* the call of a method the constructor did not assign is a TypeError (the
\* property is undefined) and registers nothing.
RouterVerb(verb, path) ==
  /\ nAdds < MaxAdds
  /\ IF verb \in allMethods THEN AddRoute(verb, path)
     ELSE /\ last' = [op |-> "add", err |-> "TypeError", method |-> ToUpperCase(verb),
                      path |-> path, result |-> EmptyResult]
          /\ UNCHANGED <<family, rx, matchers, trie, strategy, routes, nAdds, added,
                         disp, chain, kept, subRouter, mounts, req, wrapped>>

\* export const METHOD_NAME_ALL = 'ALL'
METHOD_NAME_ALL == "ALL"

\* router.use(handler): this.#path = '*', and the handler goes under ALL.
RouterUse ==
  /\ nAdds < MaxAdds
  /\ AddRoute(METHOD_NAME_ALL, <<Star>>)

\* The paths given to use().
UsePaths == {P_entry}

\* router.use(path, handler): this.#path = path, and the handler goes under
\* ALL.
RouterUsePath(path) ==
  /\ nAdds < MaxAdds
  /\ AddRoute(METHOD_NAME_ALL, path)

\* The text of a path without parameters.
TextOf(path) == [i \in DOMAIN path |-> path[i].n]

\* The handlers given to the Router that is mounted: the k-th it registers.
SubHandler(k) == 10 + k

\* The routes registered on the Router to mount, and the prefixes to mount
\* it at.
SubPatterns == {P_id}
Prefixes == {P_api}

\* Variant: a Router that is mounted passes its later routes on.
RoutesOfParent_Linked(routes0, mounts0, route) ==
  IF mounts0 = << >> THEN routes0
  ELSE Append(routes0, [route EXCEPT !.path = mounts0[1].prefix \o route.path])

\* this.router.add(...); this.routes.push(route) in #addRoute are on the
\* Router that is called: the routes of a Router it was mounted on are not
\* touched.
RoutesOfParent(routes0, mounts0, route) == routes0

\* subRouter.get(path, handler), subRouter.use(handler): #addRoute on the
\* other Router, which is never dispatched on.
SubAddRoute(method0, path) ==
  LET method == ToUpperCase(method0)
      n == Len(subRouter.routes) + 1
      route == [basePath |-> basePath, path |-> mergePath(basePath, path),
                method |-> method, handler |-> SubHandler(n)]
  IN  /\ nAdds + n <= MaxAdds
      /\ \E a \in {SmartAddOutcome("UNDECIDED", subRouter.rx, subRouter.trie,
                                    method, path, n)} :
           subRouter' = [rx |-> a.rx, trie |-> a.trie,
                         routes |-> RoutesAfterAdd(subRouter.routes, route, a.err)]
      /\ routes' = RoutesOfParent(routes, mounts, route)
      /\ UNCHANGED <<family, rx, matchers, trie, strategy, nAdds, added, last,
                     disp, chain, kept, mounts, req, wrapped>>

SubRouterVerb(verb, path) == SubAddRoute(verb, path)
SubRouterUse == SubAddRoute("ALL", <<Star>>)

\* Variant: the route of the mounted Router keeps its own path.
MountedPath_Unmerged(base, r) == r.path

\* mergePath(base, r.path): the path under which a route of the mounted
\* Router goes to this one.
MountedPath(base, r) == mergePath(base, r.path)

\* router.routes.map(r => this.#addRoute(r.method, mergePath(base, r.path),
\* r.handler)) from the state st = [rx, trie, routes, nAdds, added, err]: the
\* first add() that throws ends the loop.
RECURSIVE MountRoutes(_, _, _, _)
MountRoutes(st, strategy0, base, rs) ==
  IF rs = << >> \/ st.err # "none" THEN st
  ELSE With(MountedPath(base, Head(rs)), LAMBDA path :
       With(SmartAddOutcome(strategy0, st.rx, st.trie, ToUpperCase(Head(rs).method),
                            path, st.nAdds + 1), LAMBDA a :
         MountRoutes(
           [rx |-> a.rx, trie |-> a.trie,
            routes |-> RoutesAfterAdd(st.routes,
                         [basePath |-> basePath, path |-> mergePath(basePath, path),
                          method |-> ToUpperCase(Head(rs).method),
                          handler |-> Head(rs).handler], a.err),
            nAdds |-> IF a.err = "none" THEN st.nAdds + 1 ELSE st.nAdds,
            added |-> IF a.err = "none"
                        THEN Append(st.added, [method |-> ToUpperCase(Head(rs).method),
                                               path |-> path, h |-> st.nAdds + 1])
                        ELSE st.added,
            err |-> a.err],
           strategy0, base, Tail(rs))))

\* router.route(path, router) with the Router itself: if (router === this)
\* throw new Error('Cannot mount router onto itself').
RouteThis(prefix) ==
  /\ last' = [op |-> "route(this)", err |-> "Error", method |-> "",
              path |-> TextOf(prefix), result |-> EmptyResult]
  /\ UNCHANGED <<family, rx, matchers, trie, strategy, routes, nAdds, added,
                 disp, chain, kept, subRouter, mounts, req, wrapped>>

\* router.route(path, subRouter): every route the other Router holds now is
\* added to this one below the prefix, with the handler it has there.  A run
\* mounts it once.
Route(prefix) ==
  /\ mounts = << >>
  /\ nAdds + Len(subRouter.routes) <= MaxAdds
  /\ \E o \in {MountRoutes([rx |-> rx, trie |-> trie, routes |-> routes,
                             nAdds |-> nAdds, added |-> added, err |-> "none"],
                            strategy, mergePath(basePath, prefix), subRouter.routes)} :
       /\ rx' = o.rx
       /\ trie' = o.trie
       /\ routes' = o.routes
       /\ nAdds' = o.nAdds
       /\ added' = o.added
       /\ last' = [op |-> "route(subRouter)", err |-> o.err, method |-> "",
                   path |-> TextOf(prefix), result |-> EmptyResult]
       /\ mounts' = IF o.err = "none"
                      THEN Append(mounts, [prefix |-> prefix, first |-> nAdds + 1,
                                           router |-> subRouter])
                      ELSE mounts
  /\ UNCHANGED <<family, matchers, strategy, disp, chain, kept, subRouter, req, wrapped>>

\* What a handler does with the request once it is called: it calls next(),
\* ends the response, throws, returns a promise that rejects, or calls
\* next(error).
Outcomes == {"next", "end", "throw", "reject", "next(error)"}

\* What chain.did keeps of an outcome.
Did(outcome) == IF outcome \in {"next", "end"} THEN outcome ELSE "error"

\* Variant: the promise of the handler is left alone, and its rejection is
\* lost.
SingleHandler_PromiseLeftAlone(outcome) ==
  CASE outcome = "next" -> "called"
    [] outcome = "end" -> "none"
    [] outcome = "throw" -> "error"
    [] outcome = "reject" -> "none"
    [] outcome = "next(error)" -> "error"

\* if (handlers.length === 1): the handler is called with the outer next, so
\* its next() and next(error) are calls of the outer next; catch (err)
\* next(err) forwards what it throws and .catch(next) what its promise
\* rejects with. The result is the call of the outer next.
SingleHandler(outcome) ==
  CASE outcome = "next" -> "called"
    [] outcome = "end" -> "none"
    [] outcome = "throw" -> "error"
    [] outcome = "reject" -> "error"
    [] outcome = "next(error)" -> "error"

\* Variant: the chain goes on to the following handler whatever the handler
\* did.
compose_GoesOn(list, i, outcome) ==
  IF i < Len(list) THEN [call |-> i + 1, next |-> "none"]
  ELSE [call |-> 0, next |-> IF outcome = "next" THEN "called"
                             ELSE IF outcome = "end" THEN "none" ELSE "error"]

\* compose(handlers)(req, res, next), at the outcome of handler i of the list:
\* next() calls handler i + 1, or the outer next() after the last handler; an
\* error thrown, rejected or passed to next(error) goes to the outer
\* next(error). call is the handler called next (0: none).
compose(list, i, outcome) ==
  IF outcome = "next"
    THEN IF i < Len(list) THEN [call |-> i + 1, next |-> "none"]
         ELSE [call |-> 0, next |-> "called"]
  ELSE [call |-> 0, next |-> IF outcome = "end" THEN "none" ELSE "error"]

\* Variant: an error raised by matching is dropped.
MatchErrorOutcome_Dropped == [ran |-> << >>, next |-> "none"]

\* catch (error) { next(error) }: an error raised by matching runs no handler
\* and goes to the outer next(error).
MatchErrorOutcome == [ran |-> << >>, next |-> "error"]

\* Variant: no match ends without a call of next().
NoMatchOutcome_Silent == [ran |-> << >>, next |-> "none"]

\* if (!result || !result[0]?.length) return next()
NoMatchOutcome == [ran |-> << >>, next |-> "called"]

\* const handlers = result[0]: the handlers of the entries match() returned.
HandlersOf(entries) == [i \in DOMAIN entries |-> entries[i].h]

\* Router.dispatch(req, res, next): an error of match() goes to next(error),
\* no match calls next(); otherwise the first handler of the list is called.
\* Variant: every dispatch that matches attaches its own accessor.
attachParams_EveryTime(req0, result) == [req0 EXCEPT !.has = TRUE, !.param = result]

\* #attachParams(req, result): if (req._param) return; req._param = new
\* Param(req, result), which req.params and req.param() read.
attachParams(req0, result) ==
  IF req0.has THEN req0 ELSE [req0 EXCEPT !.has = TRUE, !.param = result]

\* The request object after Router.dispatch with the outcome o of match():
\* the accessor is attached when there is a match.
RequestAfter(req0, o) ==
  IF req0 = NoRequest THEN NoRequest
  ELSE IF o.err # "none" \/ o.result.handlers = << >> THEN req0
  ELSE With(attachParams(req0, o.result), LAMBDA r :
         [r EXCEPT !.matched = Append(@, o.result)])

\* Router.dispatch(req, res, next) for the request object req0.
DispatchOf(req0, reqMethod, path) ==
  LET method == IF reqMethod = "HEAD" THEN "GET" ELSE reqMethod
  IN  \E o \in {SmartMatchOutcome(strategy, rx, matchers, trie, method, path)} :
        /\ strategy' = o.strategy
        /\ rx' = o.rx
        /\ matchers' = o.matchers
        /\ trie' = o.trie
        /\ last' = [op |-> "match", err |-> o.err, method |-> method, path |-> path,
                    result |-> o.result]
        /\ \E keep \in IF kept = KeepsNone THEN {FALSE} ELSE BOOLEAN :
             kept' = Remember(kept, keep, last', <<o.strategy, o.rx, o.matchers, o.trie>>)
        /\ IF o.err # "none" THEN disp' = MatchErrorOutcome /\ chain' = NoChain
           ELSE IF o.result.handlers = << >>
             THEN disp' = NoMatchOutcome /\ chain' = NoChain
           ELSE /\ disp' = [ran |-> <<o.result.handlers[1].h>>, next |-> "none"]
                /\ chain' = [list |-> HandlersOf(o.result.handlers), did |-> << >>]
        /\ req' = RequestAfter(req0, o)
        /\ UNCHANGED <<family, routes, nAdds, added, subRouter, mounts, wrapped>>

\* Router.dispatch of a request object that no Router has dispatched.
Dispatch(reqMethod, path) ==
  DispatchOf(IF req = NoRequest THEN NoRequest ELSE NewRequest, reqMethod, path)

\* Router.dispatch of the request object dispatched last, once more (a
\* Router mounted twice, or below another): at most two matches a request.
DispatchAgain(reqMethod, path) ==
  /\ req # NoRequest /\ req.has /\ Len(req.matched) < 2
  /\ DispatchOf(req, reqMethod, path)

\* The result of another Router, with get('/:id', handler), for GET /7.
ForeignResult ==
  SmartMatchOutcome("UNDECIDED", RegExpAdd(EmptyMaps, "GET", P_id, SubHandler(1)),
                    Undefined, TrieAdd(<< >>, "GET", P_id, SubHandler(1)),
                    "GET", <<"7">>).result

\* Another Router dispatches a new request object, and matches.
DispatchedElsewhere ==
  /\ req # NoRequest /\ req.matched # <<ForeignResult>>
  /\ \E r \in {attachParams(NewRequest, ForeignResult)} :
       req' = [r EXCEPT !.matched = <<ForeignResult>>]
  /\ UNCHANGED <<family, rx, matchers, trie, strategy, routes, nAdds, added, last, disp,
                 chain, kept, subRouter, mounts, wrapped>>

\* The handler called last does what outcome names: the continuation of
\* Router.dispatch, in the handler itself (a single handler) or in compose.
HandlerDoes(outcome) ==
  /\ Len(chain.did) < Len(disp.ran)
  /\ chain' = [chain EXCEPT !.did = Append(@, Did(outcome))]
  /\ IF Len(chain.list) = 1
       THEN disp' = [disp EXCEPT !.next = SingleHandler(outcome)]
       ELSE \E c \in {compose(chain.list, Len(disp.ran), outcome)} :
              disp' = [ran |-> IF c.call = 0 THEN disp.ran
                               ELSE Append(disp.ran, chain.list[c.call]),
                       next |-> c.next]
  /\ UNCHANGED <<family, rx, matchers, trie, strategy, routes, nAdds, added, last, kept,
                 subRouter, mounts, req, wrapped>>

Verbs(f) ==
  CASE f = "middleware" -> {"get", "all"}
    [] f = "verbs" -> DeclaredVerbs
    [] OTHER -> {"get"}
DispatchMethods == {"GET", "HEAD", "POST"}

Next ==
  \/ \E v \in Verbs(family), p \in Patterns(family) \ {<<Star>>} : RouterVerb(v, p)
  \/ RouterUse
  \/ \E m \in DispatchMethods, p \in Paths(family) : Dispatch(m, p)
  \/ \E outcome \in Outcomes : HandlerDoes(outcome)

Spec == Init /\ [][Next]_vars

\* The Router over the route sets with wildcards, optional parameters, static
\* routes and constraints.
InitAgree == family \in AgreeFamilies /\ Fresh /\ wrapped = NotWrapped /\ kept = KeepsNone
SpecAgree == InitAgree /\ [][Next]_vars

\* The Router over a route set that can hold a constraint that is no regular
\* expression.
InitFault == family \in FaultFamilies /\ Fresh /\ wrapped = NotWrapped /\ kept = KeepsNone
SpecFault == InitFault /\ [][Next]_vars

\* The Router and a second Router that is mounted on it.
NextMount ==
  \/ Next
  \/ \E p \in SubPatterns : SubRouterVerb("get", p)
  \/ SubRouterUse
  \/ \E p \in Prefixes : Route(p)
  \/ \E p \in Prefixes : RouteThis(p)

InitMount == family \in MountFamilies /\ Fresh /\ wrapped = NotWrapped /\ kept = KeepsNone
SpecMount == InitMount /\ [][NextMount]_vars

\* The Router with middleware at a path.
NextUse ==
  \/ Next
  \/ \E p \in UsePaths : RouterUsePath(p)

InitUse == family \in UseFamilies /\ Fresh /\ wrapped = NotWrapped /\ kept = KeepsNone
SpecUse == InitUse /\ [][NextUse]_vars

\* The Router and a request object that is dispatched more than once.
NextRequest ==
  \/ Next
  \/ \E m \in DispatchMethods, p \in Paths(family) : DispatchAgain(m, p)
  \/ DispatchedElsewhere

InitRequest ==
  /\ family \in RequestFamilies
  /\ rx = EmptyMaps /\ matchers = Undefined /\ trie = << >> /\ strategy = "UNDECIDED"
  /\ routes = << >> /\ nAdds = 0 /\ added = << >> /\ last = NoCall
  /\ disp = NoDispatch /\ chain = NoChain /\ subRouter = NewRouter /\ mounts = << >>
  /\ req = NewRequest /\ wrapped = NotWrapped /\ kept = KeepsNone
SpecRequest == InitRequest /\ [][NextRequest]_vars

\* The Router with a route under each of its registration methods.
InitVerbs == family \in VerbFamilies /\ Fresh /\ wrapped = NotWrapped /\ kept = KeepsNone
SpecVerbs == InitVerbs /\ [][Next]_vars

\* The Router, with the history of an earlier match() kept.
InitKept == family \in KeptFamilies /\ Fresh /\ wrapped = NotWrapped /\ kept = NoKept
SpecKept == InitKept /\ [][Next]_vars

\* ------------------------------------------------------- handler(callback)
\* Values a callback returns or a promise resolves to: [t, v], the type and
\* the text of the value; an ApiRes is [t, result, status, message].

\* new ApiRes(result, status, message)
ApiRes(result, status, message) ==
  [t |-> "ApiRes", result |-> result, status |-> status, message |-> message]

ApiResValues ==
  {ApiRes("Success", 200, "Operation successful"),
   ApiRes("Created Data", 201, "Resource created successfully")}

\* The response object itself.
TheRes == [t |-> "res", v |-> "res"]

OtherValues ==
  {TheRes, [t |-> "string", v |-> "text"], [t |-> "string", v |-> ""],
   [t |-> "number", v |-> "0"], [t |-> "number", v |-> "1"],
   [t |-> "undefined", v |-> "undefined"], [t |-> "null", v |-> "null"],
   [t |-> "boolean", v |-> "false"], [t |-> "boolean", v |-> "true"],
   [t |-> "object", v |-> "{}"]}

\* Errors a callback throws or a promise is rejected with.
ThrownValues ==
  {[t |-> "Error", v |-> "Test Error"], [t |-> "Error", v |-> "Wrapped Error"]}

\* The error of a response that cannot be written.
ResError == [t |-> "Error", v |-> "Cannot set headers after they are sent"]
NoError == [t |-> "none", v |-> "none"]

\* What a callback does: returns a value, throws, or returns a promise that
\* resolves to a value or is rejected.
Callbacks ==
  {[kind |-> k, value |-> v] : k \in {"return", "resolve"},
                                v \in ApiResValues \cup OtherValues}
  \cup {[kind |-> k, value |-> v] : k \in {"throw", "reject"}, v \in ThrownValues}

\* ToBoolean(value)
Truthy(x) ==
  CASE x.t \in {"undefined", "null"} -> FALSE
    [] x.t \in {"string", "number", "boolean"} -> x.v \notin {"", "0", "false"}
    [] OTHER -> TRUE

\* A call of a method of res: [op, status, body].
ResCall(op, status, body) == [op |-> op, status |-> status, body |-> body]

\* ApiRes.getBody()
getBody(a) == [status |-> a.status, message |-> a.message, result |-> a.result]

\* What a piece of the wrapper did: the calls of res that returned, and the
\* error it threw.
Did0(calls, threw) == [calls |-> calls, threw |-> threw]

\* ApiRes.toJson(res): res.status(this.status).json(this.getBody())
toJson(a, writable) ==
  IF writable THEN Did0(<<ResCall("status", a.status, NoError),
                          ResCall("json", a.status, getBody(a))>>, NoError)
  ELSE Did0(<< >>, ResError)

\* res.send(result)
ResSend(result, writable) ==
  IF writable THEN Did0(<<ResCall("send", 0, result)>>, NoError)
  ELSE Did0(<< >>, ResError)

\* handleResult(result, res)
handleResult(result, writable) ==
  IF result.t = "ApiRes" THEN toJson(result, writable)
  ELSE IF Truthy(result) /\ result # TheRes THEN ResSend(result, writable)
  ELSE Did0(<< >>, NoError)

\* What the wrapper did with an error: the calls of next, and the error that
\* left the wrapper.
Caught(nexts, escaped) == [nexts |-> nexts, escaped |-> escaped]

\* Variant: a rejected promise is left alone.
CatchNext_Unhandled(error) ==
  IF error = NoError THEN Caught(<< >>, NoError) ELSE Caught(<< >>, error)

\* .catch(next) on the promise, and catch (error) { next(error) } around the
\* call of the callback.
CatchNext(error) ==
  IF error = NoError THEN Caught(<< >>, NoError) ELSE Caught(<<error>>, NoError)

\* handler(callback): the request handler, before it is called.
Wrap(callback, writable) ==
  [pc |-> "idle", callback |-> callback, writable |-> writable, args |-> << >>,
   calls |-> << >>, nexts |-> << >>, escaped |-> NoError]

\* The request handler is called: callback(req, res, next) is, and a value it
\* returns goes to handleResult, an error it throws to next; a promise it
\* returns is left to settle.
WrappedHandler ==
  /\ wrapped.pc = "idle"
  /\ \E w \in {[wrapped EXCEPT !.args = <<"req", "res", "next">>]} :
       wrapped' =
         CASE w.callback.kind = "return" ->
                With(handleResult(w.callback.value, w.writable), LAMBDA did :
                  With(CatchNext(did.threw), LAMBDA c :
                    [w EXCEPT !.pc = "done", !.calls = did.calls,
                              !.nexts = c.nexts, !.escaped = c.escaped]))
           [] w.callback.kind = "throw" ->
                With(CatchNext(w.callback.value), LAMBDA c :
                  [w EXCEPT !.pc = "done", !.nexts = c.nexts, !.escaped = c.escaped])
           [] OTHER -> [w EXCEPT !.pc = "pending"]
  /\ UNCHANGED <<family, rx, matchers, trie, strategy, routes, nAdds, added, last,
                 disp, chain, kept, subRouter, mounts, req>>

\* The promise settles: result.then(value => handleResult(value, res)).catch(next)
PromiseSettles ==
  /\ wrapped.pc = "pending"
  /\ wrapped' =
       IF wrapped.callback.kind = "resolve"
         THEN With(handleResult(wrapped.callback.value, wrapped.writable), LAMBDA did :
                With(CatchNext(did.threw), LAMBDA c :
                  [wrapped EXCEPT !.pc = "done", !.calls = did.calls,
                                  !.nexts = c.nexts, !.escaped = c.escaped]))
         ELSE With(CatchNext(wrapped.callback.value), LAMBDA c :
                [wrapped EXCEPT !.pc = "done", !.nexts = c.nexts,
                                !.escaped = c.escaped])
  /\ UNCHANGED <<family, rx, matchers, trie, strategy, routes, nAdds, added, last,
                 disp, chain, kept, subRouter, mounts, req>>

NextHandler == WrappedHandler \/ PromiseSettles

HandlerFamilies == {"handler"}

\* handler(callback) for a callback and a response object.
InitHandler ==
  /\ family \in HandlerFamilies /\ Fresh /\ kept = KeepsNone
  /\ \E callback \in Callbacks, writable \in BOOLEAN : wrapped = Wrap(callback, writable)

SpecHandler == InitHandler /\ [][NextHandler]_vars

\* ---------------------------------------------------- properties of Router

\* A step of Router.dispatch, and a step that registers a handler: every call
\* leaves its name in last.op, and a dispatch starts with no handler done.
DispatchStep == last'.op = "match" /\ chain'.did = << >>
AddStep == last'.op = "add" /\ chain' = chain

\* C1: the strategy of the Smart matcher changes once only, on the first
\* match(): from UNDECIDED to RegExp when the RegExp build succeeds, to Trie
\* when it raises UnsupportedPathError.  No other call changes it, and every
\* later match() succeeds on the committed matcher, whose state stays as it is.
C1_StrategyCommitsOnce ==
  [][ /\ (DispatchStep /\ strategy = "UNDECIDED") =>
           /\ buildAllMatchers(rx).err = "none" => strategy' = "RegExp"
           /\ buildAllMatchers(rx).err = "UnsupportedPathError" => strategy' = "Trie"
      /\ ~DispatchStep => strategy' = strategy
      /\ strategy # "UNDECIDED" =>
           /\ strategy' = strategy
           /\ matchers' = matchers /\ trie' = trie /\ rx' = rx
           /\ DispatchStep => /\ last'.err = "none"
                              /\ last'.result.indexed = (strategy = "RegExp")
    ]_vars

\* C1 happens: a match served by the RegExp matcher after the commit.
C1_Witness ==
  /\ strategy = "RegExp" /\ last.op = "match" /\ last.result.indexed
  /\ last.result.handlers # << >> /\ Len(routes) >= 2

\* C2: when the RegExp build of the routes registered fails, the first match()
\* of the Smart matcher raises nothing: it commits to the Trie matcher and
\* returns the Trie matcher's result, with the parameters resolved.  With
\* /:user/entries and /entry/:name registered, /entry/entries gets the
\* handlers of both, user = "entry" and name = "entries".
C2_TrieFallback ==
  [][ (DispatchStep /\ strategy = "UNDECIDED" /\ buildAllMatchers(rx).err # "none") =>
        /\ last'.err = "none"
        /\ strategy' = "Trie"
        /\ ~last'.result.indexed
        /\ \A i \in DOMAIN routes :
             (routes[i].method = last'.method /\ last'.path = <<"entry", "entries">>) =>
               /\ routes[i].path = P_user_entries =>
                    \E j \in DOMAIN last'.result.handlers :
                      /\ last'.result.handlers[j].h = routes[i].handler
                      /\ last'.result.handlers[j].params = ("user" :> "entry")
               /\ routes[i].path = P_entry_name =>
                    \E j \in DOMAIN last'.result.handlers :
                      /\ last'.result.handlers[j].h = routes[i].handler
                      /\ last'.result.handlers[j].params = ("name" :> "entries")
    ]_vars

\* C2 happens: /entry/entries matched by the Trie matcher with both patterns
\* registered.
C2_Witness ==
  /\ strategy = "Trie" /\ last.op = "match" /\ last.err = "none"
  /\ last.path = <<"entry", "entries">> /\ Len(last.result.handlers) >= 2
  /\ \E i, j \in DOMAIN routes : routes[i].path = P_user_entries /\ routes[j].path = P_entry_name

\* C3: once a first match() has committed the matcher, every registration
\* fails with the matcher-already-built error and registers nothing: the
\* matchers' routes and Router.routes are what they were.
C3_AddAfterMatchFails ==
  [][ (AddStep /\ strategy # "UNDECIDED") =>
        /\ last'.op = "add" /\ last'.err = "MatcherAlreadyBuilt"
        /\ routes' = routes /\ added' = added /\ nAdds' = nAdds
        /\ rx' = rx /\ trie' = trie /\ matchers' = matchers
    ]_vars

\* C3 happens: a registration refused after a match, with routes registered
\* before it.
C3_Witness ==
  /\ strategy # "UNDECIDED" /\ last.op = "add" /\ last.err = "MatcherAlreadyBuilt"
  /\ routes # << >>

\* Does the pattern of a route apply to the path of a request?
RECURSIVE PatternApplies(_, _)
PatternApplies(pattern, path) ==
  IF pattern = << >> THEN path = << >>
  ELSE IF Head(pattern).k \in {"star", "wild"} /\ Len(pattern) = 1 THEN TRUE
  ELSE IF path = << >> THEN FALSE
  ELSE /\ Head(pattern).k = "lit" => Head(pattern).n = Head(path)
       /\ PatternApplies(Tail(pattern), Tail(path))

NoRouteApplies(method, path) ==
  \A i \in DOMAIN routes :
    ~(routes[i].method \in {method, "ALL"} /\ PatternApplies(routes[i].path, path))

\* C6: a request that no registered route applies to is no error: the match
\* raises nothing and returns no handler, and dispatch calls next() with no
\* error and runs no handler.  A match on a committed matcher never raises.
C6_NoMatchIsNotAnError ==
  [][ DispatchStep =>
        /\ NoRouteApplies(last'.method, last'.path) =>
             /\ last'.err = "none"
             /\ last'.result.handlers = << >>
             /\ disp' = [ran |-> << >>, next |-> "called"]
        /\ strategy # "UNDECIDED" => last'.err = "none"
    ]_vars

\* C6 happens: a dispatch on a committed matcher, with routes registered, that
\* found no handler and called next().
C6_Witness ==
  /\ last.op = "match" /\ last.err = "none" /\ last.result.handlers = << >>
  /\ routes # << >> /\ disp = [ran |-> << >>, next |-> "called"]
  /\ NoRouteApplies(last.method, last.path)

\* The state of the matchers, as kept.state records it.
MatcherState == <<strategy, rx, matchers, trie>>

\* C14: match() does not change a committed matcher: after any number of
\* calls the matchers are as the kept call left them, and a call with the
\* method and path of the kept call ends as the kept call did, with an equal
\* result.
C14_MatchIsIdempotent ==
  (kept.call.op = "match" /\ strategy # "UNDECIDED") =>
    /\ MatcherState = kept.state
    /\ (/\ last.op = "match"
        /\ last.method = kept.call.method /\ last.path = kept.call.path) =>
         /\ last.err = kept.call.err
         /\ last.result = kept.call.result

\* C14 happens: a match() that found handlers, made again after a match() of
\* another request on the committed matcher.
C14_Witness ==
  /\ kept.call.op = "match" /\ kept.between /\ strategy # "UNDECIDED"
  /\ last.op = "match"
  /\ last.method = kept.call.method /\ last.path = kept.call.path
  /\ last.result.handlers # << >>

\* Do the RegExp matchers built from the maps and the Trie matcher return the
\* same handlers with the same parameters for a request?
SameMatch(built, troutes, method, path) ==
  ResolveParams(MatchBuilt(built, method, path)) =
    ResolveParams(TrieMatch(troutes, method, path))

C15_WitnessStatic ==
  /\ strategy = "UNDECIDED" /\ Len(routes) = 1 /\ routes[1].path = P_api_users
  /\ Len(TrieMatch(trie, "GET", <<"api", "users">>).handlers) = 1
  /\ TrieMatch(trie, "GET", <<"api", "users", "5">>).handlers = << >>
  /\ \A p \in {<<"api", "users">>, <<"api", "users", "5">>} :
       SameMatch(buildAllMatchers(rx).matchers, trie, "GET", p)

\* A route registered with a constraint that is no regular expression.
OpenConstraintRegistered ==
  \E i \in DOMAIN routes : \E j \in DOMAIN routes[i].path :
    /\ routes[i].path[j].k = "par" /\ routes[i].path[j].re # ""
    /\ ~IsRegExp(ConstraintText(routes[i].path[j].re))

\* C18: an error of the RegExp build that is not UnsupportedPathError is the
\* caller's.  With a route whose constraint is no regular expression, every
\* match() raises the SyntaxError of the build: dispatch forwards it to
\* next(error) and runs no handler, the strategy stays UNDECIDED and neither
\* matcher's routes are released; without such a route the match() raises
\* nothing.
C18_OtherErrorsPropagate ==
  last.op = "match" =>
    IF OpenConstraintRegistered
      THEN /\ last.err = "SyntaxError"
           /\ strategy = "UNDECIDED"
           /\ disp = [ran |-> << >>, next |-> "error"]
           /\ rx.routes # Undefined /\ matchers = Undefined
           /\ trie # << >>
      ELSE last.err = "none" /\ strategy = "RegExp"

\* C18 happens: a dispatch of GET /entry, which /entry matches, ended in
\* next(error) with the SyntaxError of /posts/:id{[0-9}.
C18_Witness ==
  /\ last.op = "match" /\ last.err = "SyntaxError" /\ last.path = <<"entry">>
  /\ strategy = "UNDECIDED" /\ disp.next = "error"
  /\ \E i, j \in DOMAIN routes : routes[i].path = P_entry /\ routes[j].path = P_posts_id_open

\* C20: dispatch runs the matched handlers in the order of the list match()
\* returned: the handlers called so far are the first ones of that list, a
\* handler after the first is called only when every handler before it has
\* called next() without an error, and a handler that threw, rejected or
\* passed an error is the last one called, with the error at the outer
\* next(error); an error raised by matching runs no handler and goes to the
\* outer next(error) as well.
C20_HandlersRunInOrder ==
  /\ last.op = "match" =>
       IF last.err # "none"
         THEN disp.ran = << >> /\ disp.next = "error"
         ELSE chain.list = HandlersOf(last.result.handlers)
  /\ Len(disp.ran) <= Len(chain.list)
  /\ \A i \in DOMAIN disp.ran : disp.ran[i] = chain.list[i]
  /\ Len(chain.did) <= Len(disp.ran)
  /\ \A i \in DOMAIN disp.ran :
       i > 1 => (i - 1) \in DOMAIN chain.did /\ chain.did[i - 1] = "next"
  /\ \A i \in DOMAIN chain.did :
       chain.did[i] = "error" => i = Len(disp.ran) /\ disp.next = "error"

\* C20 happens: of three handlers matched, the first called next(), the second
\* failed, and the third was not called; the outer next got the error.
C20_Witness ==
  /\ last.op = "match" /\ last.err = "none"
  /\ Len(chain.list) = 3 /\ chain.did = <<"next", "error">>
  /\ disp.ran = SubSeq(chain.list, 1, 2) /\ disp.next = "error"

\* C20 happens for matching: match() raised, and the outer next got the error
\* with no handler called.
C20_WitnessMatchError ==
  /\ last.op = "match" /\ last.err # "none"
  /\ disp = [ran |-> << >>, next |-> "error"] /\ chain = NoChain
  /\ routes # << >>

\* C20 happens for a single handler: its promise rejected, and the outer next
\* got the error.
C20_WitnessSingle ==
  /\ Len(chain.list) = 1 /\ chain.did = <<"error">> /\ disp.next = "error"

\* The upper-case method of a registration method.
MethodOf(verb) == ToUpperCase(verb)

\* C21: every registration method the class declares (get, post, put, delete,
\* patch, head, options, all) is defined on a constructed Router: a call of it
\* before the first dispatch raises nothing and pushes a route with its
\* upper-case method and the handler given.
C21_DeclaredVerbsRegister ==
  (last.op = "add" /\ strategy = "UNDECIDED" /\
   last.method \in {MethodOf(v) : v \in DeclaredVerbs}) =>
    /\ last.err = "none"
    /\ routes # << >>
    /\ routes[Len(routes)].method = last.method
    /\ routes[Len(routes)].handler = nAdds

\* router.head('/entry', handler) on a new Router: head is declared and never
\* assigned, so the call is a TypeError and no route is registered.
C21_HeadIsUndefined ==
  /\ last.op = "add" /\ last.method = "HEAD" /\ last.err = "TypeError"
  /\ routes = << >> /\ nAdds = 0

\* handlers[i][0][0]: the handler functions of the registrations hs, rs being
\* the routes of the Router that made them.
FunctionsOf(rs, hs) == [i \in DOMAIN hs |-> rs[hs[i]].handler]

\* The match of the Router r, taken on its own, for a request.
MatchOn(r, method, path) ==
  SmartMatchOutcome("UNDECIDED", r.rx, Undefined, r.trie, method, path)

\* The registrations a mount made on this Router.
MadeBy(mount) == mount.first .. (mount.first + Len(mount.router.routes) - 1)

\* Among the handlers of the last match, those a mount registered are the
\* handlers the mounted Router matches, for the same method and the path
\* below the prefix, in the same order.
MountedRoutesMatch ==
  (last.op = "match" /\ last.err = "none") =>
    \A k \in DOMAIN mounts :
      LET mount == mounts[k]
          n == Len(mount.prefix)
      IN  (Len(last.path) >= n /\ SubSeq(last.path, 1, n) = TextOf(mount.prefix)) =>
            \E below \in {MatchOn(mount.router, last.method,
                                  SubSeq(last.path, n + 1, Len(last.path)))} :
              /\ below.err = "none"
              /\ FunctionsOf(mount.router.routes, HandlersOf(below.result.handlers)) =
                   FunctionsOf(routes,
                     SelectSeq(HandlersOf(last.result.handlers),
                               LAMBDA h : h \in MadeBy(mount)))

\* Every route of this Router was registered by one of its registration
\* methods, with the handler given then (named by the number of the
\* registration), or by a mount, with the handler of the route of the mounted
\* Router at the same place.
RoutesAccounted ==
  /\ Len(routes) = nAdds
  /\ \A i \in DOMAIN routes :
       \/ routes[i].handler = i /\ \A k \in DOMAIN mounts : i \notin MadeBy(mounts[k])
       \/ \E k \in DOMAIN mounts :
            /\ i \in MadeBy(mounts[k])
            /\ routes[i].handler = mounts[k].router.routes[i - mounts[k].first + 1].handler

\* C22: route(prefix, sub) makes the routes of sub matchable on the parent at
\* prefix + path: a dispatch of a request below the prefix returns, among its
\* handlers, those the mounted Router returns for the path below the prefix,
\* in the same order; route() with the Router itself raises an error and
\* registers nothing: every route of the parent is one of its own
\* registrations or a route of the mounted Router.
C22_MountedRoutesMatchBelowPrefix ==
  /\ MountedRoutesMatch
  /\ last.op = "route(this)" => last.err = "Error"
  /\ RoutesAccounted

\* C22 happens: both routes of the mounted Router, its middleware and
\* GET /:id, are returned in their order for GET /api/users, after a handler
\* of the parent's own.
C22_Witness ==
  /\ last.op = "match" /\ last.err = "none" /\ last.path = <<"api", "users">>
  /\ Len(mounts) = 1 /\ mounts[1].first = 2
  /\ FunctionsOf(routes, HandlersOf(last.result.handlers)) =
       <<1, SubHandler(1), SubHandler(2)>>
  /\ mounts[1].router.routes[1].path = <<Wild>>
  /\ mounts[1].router.routes[2].path = P_id

\* C22 happens for the Router itself: route(prefix, router) raised the error.
C22_WitnessThis ==
  /\ last.op = "route(this)" /\ last.err = "Error" /\ routes # << >>

\* The routes the Router to mount got after every route() call that mounted
\* it (all of its routes when it was never mounted).
RegisteredAfterMount ==
  {i \in DOMAIN subRouter.routes :
     \A k \in DOMAIN mounts : i > Len(mounts[k].router.routes)}

\* C29: route(prefix, sub) copies the routes sub holds at the call: a route
\* registered on sub afterwards is no route of the parent, and no dispatch of
\* the parent returns its handler.
C29_LaterRoutesAreNotMounted ==
  \A i \in RegisteredAfterMount :
    /\ \A j \in DOMAIN routes : routes[j].handler # subRouter.routes[i].handler
    /\ (last.op = "match" /\ last.err = "none") =>
         \A j \in DOMAIN last.result.handlers :
           routes[last.result.handlers[j].h].handler # subRouter.routes[i].handler

\* C29 happens: the Router was mounted with GET /:id alone, a middleware was
\* registered on it afterwards, and the dispatch of GET /api/users returned
\* the handler of /:id only.
C29_Witness ==
  /\ Len(mounts) = 1 /\ Len(mounts[1].router.routes) = 1
  /\ mounts[1].router.routes[1].path = P_id
  /\ Len(subRouter.routes) = 2 /\ subRouter.routes[2].path = <<Wild>>
  /\ last.op = "match" /\ last.err = "none" /\ last.path = <<"api", "users">>
  /\ last.method = "GET"
  /\ FunctionsOf(routes, HandlersOf(last.result.handlers)) = <<SubHandler(1)>>

\* The place of the registration h in a list of registrations (0: not in it).
PlaceOf(h, hs) == IF \E i \in DOMAIN hs : hs[i] = h
                    THEN CHOOSE i \in DOMAIN hs : hs[i] = h ELSE 0

\* C23: the handler of use() without a path is among the handlers of every
\* dispatch, whatever the method and path, ahead of every handler registered
\* after it; the handler of use(path) is among the handlers of a dispatch,
\* whatever the method, exactly when the request is for that path.
C23_UseAppliesToAllOrToItsPath ==
  (last.op = "match" /\ last.err = "none") =>
    \E hs \in {HandlersOf(last.result.handlers)} :
      \A i \in DOMAIN added :
        added[i].method = "ALL" =>
          IF added[i].path = <<Star>>
            THEN /\ PlaceOf(added[i].h, hs) > 0
                 /\ \A j \in DOMAIN hs :
                      hs[j] > added[i].h => PlaceOf(added[i].h, hs) < j
            ELSE PlaceOf(added[i].h, hs) > 0 <=> last.path = TextOf(added[i].path)

\* C23 happens: use(handler), get('/entry', handler) and use('/entry',
\* handler) were called, and POST /entry is dispatched to the two middleware
\* handlers.
C23_Witness ==
  /\ last.op = "match" /\ last.err = "none"
  /\ last.method = "POST" /\ last.path = <<"entry">>
  /\ Len(added) = 3
  /\ added[1] = [method |-> "ALL", path |-> <<Star>>, h |-> 1]
  /\ added[2] = [method |-> "GET", path |-> P_entry, h |-> 2]
  /\ added[3] = [method |-> "ALL", path |-> P_entry, h |-> 3]
  /\ HandlersOf(last.result.handlers) = <<1, 3>>

\* C23 happens for a route registered after use(): GET /entry is dispatched
\* to the middleware first.
C23_WitnessGet ==
  /\ last.op = "match" /\ last.err = "none"
  /\ last.method = "GET" /\ last.path = <<"entry">>
  /\ HandlersOf(last.result.handlers) = <<1, 2, 3>>
  /\ added[1].path = <<Star>> /\ added[3].method = "ALL"

\* ------------------------------------------ properties of handler(callback)

\* The wrapper is done with a callback that yields value, by returning it or
\* by a promise that resolves to it.
Yielded(value) ==
  /\ wrapped.pc = "done"
  /\ wrapped.callback.kind \in {"return", "resolve"}
  /\ wrapped.callback.value = value

C24_WitnessApiRes ==
  /\ Yielded(ApiRes("Success", 200, "Operation successful"))
  /\ wrapped.callback.kind = "resolve" /\ wrapped.writable
  /\ Len(wrapped.calls) = 2 /\ wrapped.calls[2].op = "json"

\* C24 happens: a value was returned and sent with res.send.
C24_WitnessSend ==
  /\ Yielded([t |-> "string", v |-> "text"]) /\ wrapped.callback.kind = "return"
  /\ wrapped.calls = <<ResCall("send", 0, [t |-> "string", v |-> "text"])>>

\* C24 happens: the response could not be written and the error went to next.
C24_WitnessResError ==
  /\ wrapped.pc = "done" /\ ~wrapped.writable /\ wrapped.nexts = <<ResError>>

\* ---------------------------------------------- properties of RegExpRouter
\* What the registrations made (added) say, stated without the matcher's maps.

\* if (path === '/*') path = '*'
KeyOfWildcard(path) == IF path = <<Wild>> THEN <<Star>> ELSE path

\* The keys under which a registered path is kept: a wildcard under itself, a
\* path with an optional parameter under the path without it and the path
\* with it, another path under itself.
KeysOfPath(path) ==
  IF EndsWithStar(path) THEN {KeyOfWildcard(path)}
  ELSE IF path[Len(path)].k = "opt"
    THEN {SubSeq(path, 1, Len(path) - 1),
          [i \in DOMAIN path |-> IF i = Len(path) THEN Par(path[i].n) ELSE path[i]]}
  ELSE {path}

\* Does registration r belong in the handler list at key of method m?
RegApplies(r, m, key) ==
  /\ r.method = m \/ r.method = "ALL"
  /\ IF EndsWithStar(r.path)
       THEN \/ key = KeyOfWildcard(r.path)
            \/ r.path = <<Star>> \/ r.path = <<Wild>>
            \/ /\ key # <<Star>>
               /\ Len(key) >= Len(r.path) - 1
               /\ \A i \in 1..(Len(r.path) - 1) : key[i] = r.path[i]
       ELSE key \in KeysOfPath(r.path)

\* The handlers that belong at key of method m, in registration order.
ExpectedHandlers(m, key) ==
  LET Applies(r) == RegApplies(r, m, key)
      regs == SelectSeq(added, Applies)
  IN  [i \in DOMAIN regs |-> regs[i].h]

\* The bucket a request of method m is served from: its own when a route was
\* registered under m, that of ALL otherwise; and the keys in it.
BucketOf(m) == IF \E i \in DOMAIN added : added[i].method = m THEN m ELSE "ALL"
KeysIn(m) ==
  UNION {KeysOfPath(added[i].path) : i \in {j \in DOMAIN added : added[j].method \in {m, "ALL"}}}

\* Does a key match the path of a request?
RECURSIVE KeyMatches(_, _)
KeyMatches(key, path) ==
  IF key = << >> THEN path = << >>
  ELSE IF Head(key).k \in {"star", "wild"} /\ Len(key) = 1 THEN TRUE
  ELSE IF path = << >> THEN FALSE
  ELSE /\ Head(key).k = "lit" => Head(key).n = Head(path)
       /\ Head(key).k = "par" => ConstraintAccepts(Head(key).re, Head(path))
       /\ KeyMatches(Tail(key), Tail(path))

IsDynamicKey(key) == ~IsStaticPath(key)
IsParamPattern(key) == IsDynamicKey(key) /\ ~EndsWithStar(key)

\* Two distinct parameter patterns that some path matches both: the same
\* number of segments, and no place where both have a literal and the
\* literals differ.  In a place where they differ, one binds a parameter that
\* the other does not bind, or binds under another name.
Overlap(p, q) ==
  /\ p # q /\ IsParamPattern(p) /\ IsParamPattern(q)
  /\ Len(p) = Len(q)
  /\ \A i \in DOMAIN p : (p[i].k = "lit" /\ q[i].k = "lit") => p[i].n = q[i].n

OverlapRegistered ==
  \E i, j \in DOMAIN added :
    /\ added[i].method = added[j].method
    /\ \E p \in KeysOfPath(added[i].path), q \in KeysOfPath(added[j].path) : Overlap(p, q)

\* C4: two overlapping parameter patterns registered for the same method, in
\* either order, make the RegExp build fail: the maps stay unbuilt, their
\* build raises UnsupportedPathError, and so did every match() made since.
C4_OverlapRaises ==
  OverlapRegistered =>
    /\ matchers = Undefined /\ rx.routes # Undefined
    /\ buildAllMatchers(rx).err = "UnsupportedPathError"
    /\ last.op = "match" => /\ last.err = "UnsupportedPathError"
                            /\ last.result.handlers = << >>

\* C4 happens: a match() that raised, with /:id/:action registered after
\* /posts/:id.
C4_Witness ==
  /\ last.op = "match" /\ last.err = "UnsupportedPathError"
  /\ \E i, j \in DOMAIN added :
       i < j /\ added[i].path = P_posts_id /\ added[j].path = P_id_action
             /\ added[i].method = added[j].method

\* C5: with /posts/:id registered, a match of /posts/<segment> returns for
\* each such registration of the method one handler entry whose parameter
\* index map sends id to an index i with stash[i] = <segment>; with nothing
\* else registered, that entry is the whole result and i = 1.
C5_ParamIndexIntoStash ==
  (/\ last.op = "match" /\ last.err = "none"
   /\ Len(last.path) = 2 /\ last.path[1] = "posts") =>
    /\ \A r \in DOMAIN added :
         (added[r].path = P_posts_id /\ added[r].method \in {last.method, "ALL"}) =>
           /\ Cardinality({x \in DOMAIN last.result.handlers :
                             last.result.handlers[x].h = added[r].h}) = 1
           /\ \A x \in DOMAIN last.result.handlers :
                last.result.handlers[x].h = added[r].h =>
                  /\ DOMAIN last.result.handlers[x].params = {"id"}
                  /\ last.result.stash[last.result.handlers[x].params["id"]] = last.path[2]
    /\ (Len(added) = 1 /\ added[1].path = P_posts_id /\ added[1].method \in {last.method, "ALL"}) =>
         /\ last.result.handlers = <<[h |-> 1, params |-> [id |-> 1]]>>
         /\ last.result.stash[1] = last.path[2]

\* C5 happens: GET /posts/1 matched with GET /posts/:id the one registration.
C5_Witness ==
  /\ last.op = "match" /\ last.err = "none" /\ last.method = "GET"
  /\ last.path = <<"posts", "1">>
  /\ added = <<[method |-> "GET", path |-> P_posts_id, h |-> 1]>>
  /\ Len(last.result.handlers) = 1

\* C7: with a handler registered at the wildcard /api/* and, after it, one
\* at /api/users/:id, a match of /api/users/5 for a method both apply to
\* returns both, the wildcard's handler ahead of the route's.
C7_WildcardAheadOfRoute ==
  (last.op = "match" /\ last.path = <<"api", "users", "5">>) =>
    \A i, j \in DOMAIN added :
      (/\ i < j
       /\ added[i].path = P_api_wild /\ added[i].method \in {last.method, "ALL"}
       /\ added[j].path = P_api_users_id /\ added[j].method \in {last.method, "ALL"}) =>
        /\ last.err = "none"
        /\ \E a, b \in DOMAIN last.result.handlers :
             /\ a < b
             /\ last.result.handlers[a].h = added[i].h
             /\ last.result.handlers[b].h = added[j].h

\* C7 happens: /api/users/5 matched with /api/* registered under ALL and
\* /api/users/:id under GET after it.
C7_Witness ==
  /\ last.op = "match" /\ last.err = "none" /\ last.method = "GET"
  /\ last.path = <<"api", "users", "5">>
  /\ \E i, j \in DOMAIN added :
       /\ i < j /\ added[i].path = P_api_wild /\ added[i].method = "ALL"
       /\ added[j].path = P_api_users_id /\ added[j].method = "GET"
  /\ Len(last.result.handlers) >= 2

StrictlyIncreasing(hs) == \A a, b \in DOMAIN hs : a < b => hs[a] < hs[b]

\* C8: every handler list the matcher holds, for a method and a key, has the
\* handlers in registration order, one for each registration that applies to
\* the key and none other; the lists of the built matchers keep that order.
C8_RegistrationOrder ==
  /\ rx.routes # Undefined =>
       \A map \in {rx.middleware, rx.routes} :
         \A i \in DOMAIN map : \A j \in DOMAIN map[i].v :
           HandlersOf(map[i].v[j].v) = ExpectedHandlers(map[i].k, map[i].v[j].k)
  /\ \A i \in DOMAIN matchers :
       /\ \A x \in DOMAIN matchers[i].v.handlerData :
            StrictlyIncreasing(HandlersOf(matchers[i].v.handlerData[x]))
       /\ \A x \in DOMAIN matchers[i].v.staticMap :
            StrictlyIncreasing(HandlersOf(matchers[i].v.staticMap[x].v))
  /\ last.op = "match" => StrictlyIncreasing(HandlersOf(last.result.handlers))

\* C8 happens: a list of three handlers, of a wildcard under ALL, a wildcard
\* under GET and a route, held at a route key.
C8_Witness ==
  /\ rx.routes # Undefined
  /\ \E i \in DOMAIN rx.routes : \E j \in DOMAIN rx.routes[i].v :
       /\ Len(rx.routes[i].v[j].v) = 3
       /\ rx.routes[i].v[j].k = P_api_users_id
  /\ \E a, b \in DOMAIN added : added[a].method = "ALL" /\ added[b].method = "GET"
                                 /\ EndsWithStar(added[a].path) /\ EndsWithStar(added[b].path)

\* C9: a handler registered at /users/:id? is kept at /users with no
\* parameter and at /users/:id with one; /users and /users/<segment> both
\* match it, id absent for the first and <segment> for the second.
C9_OptionalParameter ==
  \A r \in DOMAIN added :
    added[r].path = P_users_optid =>
      /\ rx.routes # Undefined =>
           \A i \in DOMAIN rx.routes :
             (added[r].method = "ALL" \/ rx.routes[i].k = added[r].method) =>
               /\ Has(rx.routes[i].v, P_users)
               /\ \E x \in DOMAIN Get(rx.routes[i].v, P_users) :
                    Get(rx.routes[i].v, P_users)[x] = [h |-> added[r].h, pc |-> 0]
               /\ Has(rx.routes[i].v, <<Lit("users"), Par("id")>>)
               /\ \E x \in DOMAIN Get(rx.routes[i].v, <<Lit("users"), Par("id")>>) :
                    Get(rx.routes[i].v, <<Lit("users"), Par("id")>>)[x] = [h |-> added[r].h, pc |-> 1]
      /\ (last.op = "match" /\ added[r].method \in {last.method, "ALL"}) =>
           /\ last.err = "none"
           /\ last.path = <<"users">> =>
                \E x \in DOMAIN last.result.handlers :
                  /\ last.result.handlers[x].h = added[r].h
                  /\ DOMAIN last.result.handlers[x].params = {}
           /\ (Len(last.path) = 2 /\ last.path[1] = "users") =>
                \E x \in DOMAIN last.result.handlers :
                  /\ last.result.handlers[x].h = added[r].h
                  /\ DOMAIN last.result.handlers[x].params = {"id"}
                  /\ last.result.stash[last.result.handlers[x].params["id"]] = last.path[2]

\* C9 happens: /users/5 matched with /users/:id? registered.
C9_Witness ==
  /\ last.op = "match" /\ last.err = "none" /\ last.path = <<"users", "5">>
  /\ \E r \in DOMAIN added : added[r].path = P_users_optid /\ added[r].method = last.method
  /\ last.result.handlers # << >>

\* Two segments that share a node of the trie: the same literal, parameters
\* with the same constraint, or wildcards.
SameSlot(a, b) ==
  \/ a.k = "lit" /\ b.k = "lit" /\ a.n = b.n
  \/ a.k \in {"par", "opt"} /\ b.k \in {"par", "opt"} /\ a.re = b.re
  \/ a.k \in {"wild", "star"} /\ b.k \in {"wild", "star"}

\* Two keys, not both static, that one matcher cannot hold: where they part, a
\* parameter stands against a literal or another parameter; or they part
\* nowhere and end in the same node.
Conflict(p, q) ==
  LET n == IF Len(p) < Len(q) THEN Len(p) ELSE Len(q)
      diffs == {i \in 1..n : ~SameSlot(p[i], q[i])}
      d == CHOOSE i \in diffs : \A j \in diffs : i <= j
  IN  IF diffs = {} THEN Len(p) = Len(q) /\ IsDynamicKey(p) /\ IsDynamicKey(q)
      ELSE \/ p[d].k = "par" /\ q[d].k \in {"lit", "par"}
           \/ q[d].k = "par" /\ p[d].k \in {"lit", "par"}

\* A key with a parameter whose constraint has a capturing group.
CapturingKey(key) ==
  \E i \in DOMAIN key :
    /\ key[i].k = "par" /\ key[i].re # ""
    /\ HasCapturingGroup(NonCapturing(ConstraintText(key[i].re)))

ConflictFree ==
  \A m \in {"ALL"} \cup {added[i].method : i \in DOMAIN added} :
    /\ \A p \in KeysIn(m) : ~CapturingKey(p)
    /\ \A p, q \in KeysIn(m) :
         (p # q /\ (IsDynamicKey(p) \/ IsDynamicKey(q))) => ~Conflict(p, q)

\* The dynamic keys of the bucket of method m that match a path, and the
\* static key that is the path.
DynamicKeysFor(m, path) == {k \in KeysIn(BucketOf(m)) : IsDynamicKey(k) /\ KeyMatches(k, path)}
StaticKeyOf(path) == [i \in DOMAIN path |-> Lit(path[i])]

FirstRegistered(key) ==
  CHOOSE i \in DOMAIN added :
    /\ key \in KeysOfPath(added[i].path)
    /\ \A j \in DOMAIN added : key \in KeysOfPath(added[j].path) => i <= j

Longest(S) == CHOOSE k \in S : \A k2 \in S : PathLen(k2) <= PathLen(k)
ShortestEarliest(S) ==
  CHOOSE k \in S : \A k2 \in S :
    \/ PathLen(k) < PathLen(k2)
    \/ PathLen(k) = PathLen(k2) /\ FirstRegistered(k) <= FirstRegistered(k2)

\* The handlers a match returns when, of the dynamic keys that apply, Pick
\* chooses the one that wins.
ResultWhen(Pick(_)) ==
  IF StaticKeyOf(last.path) \in KeysIn(BucketOf(last.method))
    THEN ExpectedHandlers(BucketOf(last.method), StaticKeyOf(last.path))
  ELSE IF DynamicKeysFor(last.method, last.path) = {} THEN << >>
  ELSE ExpectedHandlers(BucketOf(last.method), Pick(DynamicKeysFor(last.method, last.path)))

SameStructuralSlot(p, q) ==
  /\ IsStaticPath(p) /\ IsParamPattern(q)
  /\ \E d \in DOMAIN p \cap DOMAIN q :
       /\ SubSeq(p, 1, d - 1) = SubSeq(q, 1, d - 1)
       /\ p[d].k = "lit" /\ q[d].k = "par"

StaticInParameterSlot ==
  \E i, j \in DOMAIN added :
    /\ added[i].method = added[j].method
    /\ SameStructuralSlot(added[i].path, added[j].path)

\* C11: a static route and a parameter pattern in the same structural slot,
\* registered for the same method in either order and under any parameter
\* name, make the RegExp build fail: the maps stay unbuilt and every match()
\* raises UnsupportedPathError and returns nothing.
C11_StaticInParameterSlotRaises ==
  StaticInParameterSlot =>
    /\ matchers = Undefined /\ rx.routes # Undefined
    /\ buildAllMatchers(rx).err = "UnsupportedPathError"
    /\ last.op = "match" => /\ last.err = "UnsupportedPathError"
                            /\ last.result.handlers = << >>

\* C11 happens: a match() that raised with /posts/entry registered before
\* /posts/:name, nothing else registered.
C11_Witness ==
  /\ last.op = "match" /\ last.err = "UnsupportedPathError"
  /\ Len(added) = 2
  /\ added[1].path = P_posts_entry /\ added[2].path = P_posts_name
  /\ added[1].method = added[2].method

\* C11 happens in the other order: the parameter pattern registered first.
C11_WitnessDynamicFirst ==
  /\ last.op = "match" /\ last.err = "UnsupportedPathError"
  /\ Len(added) = 2
  /\ added[1].path = P_posts_id /\ added[2].path = P_posts_entry
  /\ added[1].method = added[2].method

\* Two keys with different constraints on the parameter of one structural
\* slot: the same segments up to a place where both have a constrained
\* parameter, and the constraints differ.
DifferentConstraints(p, q) ==
  \E d \in DOMAIN p \cap DOMAIN q :
    /\ \A i \in 1..(d - 1) : SameSlot(p[i], q[i])
    /\ p[d].k = "par" /\ q[d].k = "par"
    /\ p[d].re # "" /\ q[d].re # "" /\ p[d].re # q[d].re

DifferentConstraintsRegistered ==
  \E i, j \in DOMAIN added :
    /\ added[i].method = added[j].method
    /\ DifferentConstraints(added[i].path, added[j].path)

\* C12: two patterns registered for one method with different constraints on
\* the parameter of the same structural slot make the RegExp build fail with
\* UnsupportedPathError: the maps stay unbuilt and every match() raises it.
C12_DifferentConstraintsRaise ==
  DifferentConstraintsRegistered =>
    /\ matchers = Undefined /\ rx.routes # Undefined
    /\ buildAllMatchers(rx).err = "UnsupportedPathError"
    /\ last.op = "match" => /\ last.err = "UnsupportedPathError"
                            /\ last.result.handlers = << >>

\* C12 happens: a match() that raised with /:id/:action{create|update} and
\* /:id/:action{delete} the two registrations.
C12_Witness ==
  /\ last.op = "match" /\ last.err = "UnsupportedPathError"
  /\ Len(added) = 2
  /\ added[1].path = P_id_action_create_update /\ added[2].path = P_id_action_delete
  /\ added[1].method = added[2].method

\* The same constraint in the same slot is no conflict: /:id/:action{delete}
\* under GET and under POST builds, and /1/delete matches while /1/create
\* does not.
ConstraintBuilds ==
  /\ last.op = "match" /\ last.err = "none" /\ last.path = <<"1", "delete">>
  /\ \A i \in DOMAIN added : added[i].path = P_id_action_delete
  /\ Len(added) = 2 /\ Len(last.result.handlers) = 1

GroupFromEndToEndBuilds ==
  /\ last.op = "match" /\ last.err = "none" /\ last.path = <<"1", "delete">>
  /\ Len(added) = 1 /\ added[1].path = P_id_action_group
  /\ Len(last.result.handlers) = 1

\* A matcher that was compiled: buildMatcher returned a Matcher, not null.
Compiled(ms, method) == Has(ms, method) /\ ~Get(ms, method).isNull

\* The methods with a route of their own in the maps.
MethodsWithOwnRoute(maps) ==
  {maps.routes[i].k : i \in {j \in DOMAIN maps.routes : hasOwnRoute(maps, maps.routes[j].k)}}

\* C16: the RegExp matcher builds lazily, for all methods at once.  add()
\* only buffers: it compiles nothing.  The first match() that builds, for
\* whatever method, compiles the matcher of every method that has a route of
\* its own and releases the two maps whole; a build that fails compiles
\* nothing and leaves the maps; once built, nothing is compiled again.
C16_LazyBuildOfAllMethods ==
  [][ /\ AddStep => matchers' = matchers
      /\ (DispatchStep /\ matchers = Undefined /\ last'.err = "none") =>
           /\ \A m \in MethodsWithOwnRoute(rx) : Compiled(matchers', m)
           /\ rx'.middleware = Undefined /\ rx'.routes = Undefined
      /\ (DispatchStep /\ matchers = Undefined /\ last'.err # "none") =>
           /\ matchers' = Undefined /\ rx' = rx
      /\ matchers # Undefined => matchers' = matchers /\ rx' = rx
    ]_vars

\* C16 happens: the first match(), for GET, has built the matchers of GET and
\* of POST and released the maps.
C16_Witness ==
  /\ last.op = "match" /\ last.err = "none" /\ last.method = "GET"
  /\ Compiled(matchers, "GET") /\ Compiled(matchers, "POST")
  /\ rx = [middleware |-> Undefined, routes |-> Undefined]

\* C16 as stated: the build is per method: the first match() for a method
\* compiles the matcher of no other method (but that of ALL, which serves
\* it).
C16_BuiltPerMethod ==
  [][ (DispatchStep /\ matchers = Undefined) =>
        \A m \in {"GET", "POST"} \ {last'.method} : ~Compiled(matchers', m)
    ]_vars

\* The keys registered, of whatever method.
KeysRegistered == UNION {KeysOfPath(added[i].path) : i \in DOMAIN added}

\* A registered key that cannot be compiled, or that is in conflict with
\* another key of the same method's bucket.
Offending(key) ==
  \/ CapturingKey(key)
  \/ \E m \in {"ALL"} \cup {added[i].method : i \in DOMAIN added} :
       /\ key \in KeysIn(m)
       /\ \E q \in KeysIn(m) : q # key /\ Conflict(key, q)

\* C17: add() never fails with UnsupportedPathError: it ends with no error
\* while the maps are unbuilt, whatever the pattern, and with the
\* matcher-already-built error afterwards.  A pattern that cannot be compiled
\* or is ambiguous against the others is reported by match(): while the
\* build of the registered routes fails, every match() raises
\* UnsupportedPathError, which carries the text of an offending key
\* (the path of the failed build).
C17_UnsupportedPathSurfacesAtMatch ==
  /\ last.op = "add" =>
       /\ last.err \in {"none", "MatcherAlreadyBuilt"}
       /\ (last.err = "none") = (rx.routes # Undefined)
  /\ (last.op = "match" /\ rx.routes # Undefined) =>
       With(buildAllMatchers(rx), LAMBDA b :
         /\ b.err = "UnsupportedPathError" /\ last.err = b.err
         /\ b.path \in KeysRegistered /\ Offending(b.path))
  /\ (last.op = "match" /\ rx.routes = Undefined) => last.err = "none"

\* C17 happens: /entry/:name was added without an error after /:user/entries,
\* and the match() after it raised UnsupportedPathError.
C17_Witness ==
  /\ last.op = "match" /\ last.err = "UnsupportedPathError"
  /\ Len(added) = 2
  /\ added[1].path = P_user_entries /\ added[2].path = P_entry_name
  /\ added[1].method = added[2].method

\* C17 as stated: an add() of a pattern that cannot be compiled, or is
\* ambiguous against the patterns added before, fails with
\* UnsupportedPathError.
C17_AddRaisesUnsupportedPath ==
  (last.op = "add" /\ rx.routes # Undefined /\ buildAllMatchers(rx).err # "none") =>
    last.err = "UnsupportedPathError"

\* ------------------------------------------------ the ALL bucket and the rest

\* The registrations under ALL whose path a request path matches.
AllRegsFor(path) ==
  {i \in DOMAIN added :
     /\ added[i].method = "ALL"
     /\ \E key \in KeysOfPath(added[i].path) : KeyMatches(key, path)}

\* C25: a handler registered under ALL for a path is among the handlers of a
\* match of that path under every method: one first registered before it, one
\* first registered after it, and one never registered.
C25_AllReachesEveryMethod ==
  (last.op = "match" /\ last.err = "none") =>
    \A i \in AllRegsFor(last.path) :
      \E k \in DOMAIN last.result.handlers : last.result.handlers[k].h = added[i].h
\* C25 happens for a method first registered before the ALL registration:
\* get('/api/users'), all('/api/users/:id'), and GET /api/users/5 is matched
\* to the handler under ALL.
C25_Witness ==
  /\ last.op = "match" /\ last.err = "none"
  /\ last.method = "GET" /\ last.path = <<"api", "users", "5">>
  /\ Len(added) = 2
  /\ added[1] = [method |-> "GET", path |-> P_api_users, h |-> 1]
  /\ added[2] = [method |-> "ALL", path |-> P_api_users_id, h |-> 2]
  /\ HandlersOf(last.result.handlers) = <<2>>

\* C25 happens for a method first registered after the ALL registration.
C25_WitnessAfter ==
  /\ last.op = "match" /\ last.err = "none"
  /\ last.method = "GET" /\ last.path = <<"api", "users", "5">>
  /\ Len(added) = 2
  /\ added[1] = [method |-> "ALL", path |-> P_api_users_id, h |-> 1]
  /\ added[2] = [method |-> "GET", path |-> P_api_users, h |-> 2]
  /\ HandlersOf(last.result.handlers) = <<1>>

\* C25 happens for a method never registered.
C25_WitnessNever ==
  /\ last.op = "match" /\ last.err = "none"
  /\ last.method = "POST" /\ last.path = <<"api", "users", "5">>
  /\ Len(added) = 1
  /\ added[1] = [method |-> "ALL", path |-> P_api_users_id, h |-> 1]
  /\ HandlersOf(last.result.handlers) = <<1>>
\* ------------------------------------------------- a build that raises

\* The maps after the first n registrations made, on a new RegExpRouter.
RECURSIVE MapsAfter(_)
MapsAfter(n) ==
  IF n = 0 THEN EmptyMaps
  ELSE RegExpAdd(MapsAfter(n - 1), added[n].method, added[n].path, added[n].h)

\* An earlier match() raised UnsupportedPathError.
RaisedBefore == kept.call.op = "match" /\ kept.call.err = "UnsupportedPathError"

\* C26: a match() whose build raised UnsupportedPathError leaves the maps as
\* the registrations made them and no matcher built; every match() after it
\* raises the error again, and every add() after it is accepted.
C26_FailedBuildKeepsTheMaps ==
  /\ (last.op = "match" /\ last.err = "UnsupportedPathError") =>
       /\ rx = MapsAfter(Len(added))
       /\ matchers = Undefined
  /\ RaisedBefore =>
       /\ last.op = "match" => last.err = "UnsupportedPathError"
       /\ last.op = "add" => last.err = "none"

\* C26 happens: a match() raised, a route was added after it, and the match()
\* after that raised again.
C26_Witness ==
  /\ RaisedBefore /\ last.op = "match" /\ last.err = "UnsupportedPathError"
  /\ Len(added) = 3
  /\ kept.state[2] = MapsAfter(2)

\* C26 happens: the add() after a match() that raised was accepted.
C26_WitnessAdd ==
  /\ RaisedBefore /\ last.op = "add" /\ last.err = "none"
  /\ Len(added) = 3
  /\ kept.state[2] = MapsAfter(2)
\* -------------------------------------------- one build for all the methods

\* The methods with two overlapping parameter patterns among their own
\* registrations.
AmbiguousMethods ==
  {m \in RequestMethods :
     \E i, j \in DOMAIN added :
       /\ added[i].method = m /\ added[j].method = m
       /\ \E p \in KeysOfPath(added[i].path), q \in KeysOfPath(added[j].path) :
            Overlap(p, q)}

\* Does some registration of method m, or of ALL, match the request path?
RouteFor(m, path) ==
  \E i \in DOMAIN added :
    /\ added[i].method \in {m, "ALL"}
    /\ \E key \in KeysOfPath(added[i].path) : KeyMatches(key, path)

\* C27: while the routes of some method are ambiguous, a match() raises
\* UnsupportedPathError and builds no matcher, whatever the method and the
\* path requested: a method with unambiguous routes of its own, a path that
\* no route matches.
C27_OneAmbiguousMethodFailsEveryMatch ==
  (last.op = "match" /\ AmbiguousMethods # {}) =>
    \A m \in RequestMethods, path \in Paths(family) :
      (last.method = m /\ last.path = path) =>
        /\ last.err = "UnsupportedPathError"
        /\ last.result.handlers = << >>
        /\ matchers = Undefined

\* C27 happens: the routes of GET are ambiguous, POST has one route, and a
\* match() of POST for a path that no route matches raised the error.
C27_Witness ==
  /\ last.op = "match" /\ last.err = "UnsupportedPathError"
  /\ last.method = "POST" /\ last.path = << >>
  /\ AmbiguousMethods = {"GET"}
  /\ \E i \in DOMAIN added : added[i].method = "POST"
  /\ ~RouteFor("POST", last.path)
\* ------------------------------------------------- the buckets of a method

\* Is the bucket of method m the same in the map a as in the map b?
SameBucket(a, b, m) ==
  /\ Has(a, m) <=> Has(b, m)
  /\ Has(a, m) => Get(a, m) = Get(b, m)

\* C28: the maps are what the registrations made, one after the other, make
\* of them, and a registration under a method other than ALL leaves the
\* middleware bucket and the route bucket of every other method, ALL
\* included, as they were: no list of one bucket is a list of another.
C28_AddTouchesOnlyItsMethod ==
  /\ rx.routes # Undefined => rx = MapsAfter(Len(added))
  /\ \A n \in DOMAIN added :
       added[n].method # "ALL" =>
         \A m \in ({"ALL"} \cup RequestMethods) \ {added[n].method} :
           /\ SameBucket(MapsAfter(n).middleware, MapsAfter(n - 1).middleware, m)
           /\ SameBucket(MapsAfter(n).routes, MapsAfter(n - 1).routes, m)

\* C28 happens: all('/api/users'), then get('/api/users'): the GET bucket
\* started as a copy of the ALL bucket, and the handler went into the GET
\* bucket alone.
C28_Witness ==
  /\ last.op = "add" /\ last.err = "none" /\ last.method = "GET"
  /\ Len(added) = 2
  /\ added[1] = [method |-> "ALL", path |-> P_api_users, h |-> 1]
  /\ added[2] = [method |-> "GET", path |-> P_api_users, h |-> 2]
  /\ Get(rx.routes, "ALL") = Get(MapsAfter(1).routes, "ALL")
  /\ Len(Get(Get(rx.routes, "ALL"), P_api_users)) = 1
  /\ Len(Get(Get(rx.routes, "GET"), P_api_users)) = 2

\* C28 happens for a wildcard: all('/api/users'), get('/api/users'), then
\* get('/api/*'), whose handler went onto the list of GET alone.
C28_WitnessWildcard ==
  /\ last.op = "add" /\ last.err = "none" /\ last.method = "GET"
  /\ last.path = P_api_wild
  /\ Len(added) = 3
  /\ added[1].method = "ALL" /\ added[1].path = P_api_users
  /\ added[2].method = "GET" /\ added[2].path = P_api_users
  /\ Len(Get(Get(rx.routes, "ALL"), P_api_users)) = 1
  /\ Len(Get(Get(rx.routes, "GET"), P_api_users)) = 3
\* ------------------------------------------------- the parameter accessor

\* What req.params and req.param() read: the parameters of the result the
\* accessor of the request holds.
ParamsRead == ResolveParams(req.param)

\* C30: the accessor of a request is attached once: after every dispatch of
\* a request that matched, the accessor holds the result of the first match
\* of that request, by this Router or another, and req.params and req.param()
\* read the parameters of that result.
C30_AccessorAttachedOnce ==
  (req # NoRequest /\ req.matched # << >>) =>
    /\ req.has
    /\ req.param = req.matched[1]
    /\ ParamsRead = ResolveParams(req.matched[1])

\* C30 happens: a request matched GET /posts/42 and then, dispatched again,
\* GET /entry/42; its accessor still reads id.
C30_Witness ==
  /\ req # NoRequest /\ Len(req.matched) = 2
  /\ last.op = "match" /\ last.err = "none" /\ last.path = <<"entry", "42">>
  /\ last.result = req.matched[2]
  /\ ResolveParams(req.matched[1]) # ResolveParams(req.matched[2])
  /\ ParamsRead = ResolveParams(req.matched[1])
  /\ \E i \in DOMAIN added : added[i].path = P_posts_id

\* C30 happens for the accessor of another Router.
C30_WitnessForeign ==
  /\ req # NoRequest /\ Len(req.matched) = 2
  /\ req.matched[1] = ForeignResult
  /\ last.op = "match" /\ last.err = "none" /\ last.result = req.matched[2]
  /\ req.param = ForeignResult /\ req.param # last.result
====
